---- MODULE Spec2Model ----
(***************************************************************************)
(* Feature-detection engine of BaselineGuard: pattern registry, syntax     *)
(* matcher, text matcher, result merger and detection cache                *)
(* (src/src/enhancedFeatureDetector.ts), with the lookup service           *)
(* (src/src/webStatusApi.ts) and the legacy detector (FeatureDetector).    *)
(*                                                                         *)
(* A document text is a sequence of lexical tokens.  Confidences are       *)
(* percentages (1.0 = 100).  Indices into a text are 0-based offsets as in *)
(* the source; TLA+ sequences are 1-based, so offset i is element i+1.     *)
(***************************************************************************)
EXTENDS Integers, Sequences, FiniteSets, TLC

(* ------------------------------ bounds --------------------------------- *)
MaxVersion == 6
MaxFreeVersion == 2
NCalls == 2
MaxFreeCalls == 1
MaxIter == 3
MaxRaw == 3
MaxStale == 6

(* the edits one document receives *)
MaxBurst == 2

None == "none"
NoKey == << >>

(* ------------------------- program constants --------------------------- *)
CacheLimit == 10
MinConfidence == 60
MinContextConfidence == 50

(* ------------------------------ registry ------------------------------- *)
TypeScriptLike == {"typescript", "javascript", "typescriptreact", "javascriptreact"}

(* isTypeScriptLike that takes every language for a program-like one *)
isTypeScriptLike_Any(language) == TRUE

isTypeScriptLike(language) == language \in TypeScriptLike

NoAst == [nodeType |-> None, objectName |-> None, methodName |-> None]

(* A text pattern is modelled by the token it matches ("tok": one token,   *)
(* a match of length 1) -- every regex of the registry needs at least one  *)
(* character.  "star" is tok*, a pattern that can match the empty string.  *)
Tok(t) == [kind |-> "tok", tok |-> t]
Star(t) == [kind |-> "star", tok |-> t]

(* a pattern that matches inside any token of the set S *)
OneOf(S) == [kind |-> "oneof", tok |-> S]

ENHANCED_WEB_PATTERNS ==
  << [featureId |-> "backdrop-filter", pattern |-> Tok("backdrop-filter:"),
      language |-> {"css", "scss", "less", "stylus"}, confidence |-> 95,
      contextRequired |-> FALSE, astPattern |-> NoAst],
     [featureId |-> "urlpattern", pattern |-> Tok("newURLPattern("),
      language |-> TypeScriptLike, confidence |-> 100,
      contextRequired |-> FALSE,
      astPattern |-> [nodeType |-> "NewExpression", objectName |-> "URLPattern",
                      methodName |-> None]],
     [featureId |-> "web-share", pattern |-> Tok("navigator.share("),
      language |-> TypeScriptLike, confidence |-> 95,
      contextRequired |-> FALSE,
      astPattern |-> [nodeType |-> "CallExpression", objectName |-> "navigator",
                      methodName |-> "share"]],
     [featureId |-> "web-animations", pattern |-> Tok(".animate("),
      language |-> TypeScriptLike, confidence |-> 70,
      contextRequired |-> TRUE, astPattern |-> NoAst],
     [featureId |-> "fetch", pattern |-> Tok("fetch("),
      language |-> TypeScriptLike, confidence |-> 90,
      contextRequired |-> FALSE, astPattern |-> NoAst],
     [featureId |-> "dialog", pattern |-> Tok("<dialog "),
      language |-> {"html", "javascriptreact", "typescriptreact", "vue", "svelte"},
      confidence |-> 95, contextRequired |-> FALSE, astPattern |-> NoAst] >>

hasAstPattern(p) == p.astPattern # NoAst

(* `patterns.filter(p => p.language.includes(language))` *)
PatternsIn(registry, language) ==
  SelectSeq(registry, LAMBDA p : language \in p.language)

getPatternsForLanguage(language) == PatternsIn(ENHANCED_WEB_PATTERNS, language)

(* --------------------------- lookup service ---------------------------- *)
(* WebStatusApiClient.cache: feature_id -> record; the record is reduced   *)
(* to its baseline status ("unknown" when the record has no baseline).     *)
getFeature(api, featureId) ==
  IF featureId \in DOMAIN api
  THEN [found |-> TRUE, feature_id |-> featureId, baseline |-> api[featureId]]
  ELSE [found |-> FALSE, feature_id |-> featureId, baseline |-> "unknown"]

(* getSeverity that reports a limited feature as an error *)
getSeverity_LimitedError(feature) ==
  CASE feature.baseline = "limited" -> "Error"
    [] feature.baseline = "newly" -> "Information"
    [] feature.baseline = "widely" -> "Hint"
    [] OTHER -> "Information"

getSeverity(feature) ==
  CASE feature.baseline = "limited" -> "Warning"
    [] feature.baseline = "newly" -> "Information"
    [] feature.baseline = "widely" -> "Hint"
    [] OTHER -> "Information"

(* WebStatusApiClient.getBaselineStatus, its status field *)
getBaselineStatus(feature) ==
  [status |-> CASE feature.baseline = "widely" -> "widely"
                [] feature.baseline = "newly" -> "newly"
                [] feature.baseline = "limited" -> "limited"
                [] OTHER -> "unknown"]

(* FeatureDetector.getSeverityFromStatus *)
getSeverityFromStatus(status) ==
  CASE status = "limited" -> "Warning"
    [] status = "newly" -> "Information"
    [] status = "widely" -> "Hint"
    [] OTHER -> "Information"

(* ------------------------------ documents ------------------------------ *)
Min(S) == CHOOSE x \in S : \A y \in S : x <= y

(* offsets of the line starts of a text: 0 and the offset after each NL *)
LineStarts(text) == {0} \cup {i \in 1..Len(text) : text[i] = "NL"}

(* TextDocument.positionAt: offset -> (line, character), offset clamped *)
positionAt(text, offset) ==
  LET o == IF offset > Len(text) THEN Len(text) ELSE offset
      before == {s \in LineStarts(text) : s <= o}
      ls == CHOOSE s \in before : \A t \in before : t <= s
  IN [line |-> Cardinality(before) - 1, character |-> o - ls]

(* TextDocument.lineAt(line).text: the tokens of that line, without NL *)
lineAt(text, line) ==
  LET idx == {i \in 1..Len(text) :
                 /\ text[i] # "NL"
                 /\ positionAt(text, i - 1).line = line}
  IN SelectSeq([i \in 1..Len(text) |-> IF i \in idx THEN text[i] ELSE "NL"],
               LAMBDA t : t # "NL")

(* ---------------------------- text matcher ----------------------------- *)
RECURSIVE RunLen(_, _, _)
(* length of the run of token t in text starting at offset i *)
RunLen(text, i, t) ==
  IF i < Len(text) /\ text[i + 1] = t THEN 1 + RunLen(text, i + 1, t) ELSE 0

(* length of the match of pattern at offset i exactly, -1 if none *)
MatchLenAt(pattern, text, i) ==
  IF pattern.kind = "star" THEN RunLen(text, i, pattern.tok)
  ELSE IF pattern.kind = "oneof"
  THEN IF i < Len(text) /\ text[i + 1] \in pattern.tok THEN 1 ELSE -1
  ELSE IF i < Len(text) /\ text[i + 1] = pattern.tok THEN 1 ELSE -1

(* RegExp.prototype.exec of a global regex whose lastIndex is li:          *)
(* the leftmost match at or after li; lastIndex becomes the end of the     *)
(* match, or 0 when there is none (also when li is past the end).          *)
Exec(pattern, text, li) ==
  LET cand == {i \in li..Len(text) : MatchLenAt(pattern, text, i) >= 0}
  IN IF li > Len(text) \/ cand = {}
     THEN [found |-> FALSE, index |-> 0, len |-> 0, lastIndex |-> 0]
     ELSE LET i == Min(cand)
              n == MatchLenAt(pattern, text, i)
          IN [found |-> TRUE, index |-> i, len |-> n, lastIndex |-> i + n]

validateContext(lineText, patternInfo) ==
  LET has(t) == \E k \in 1..Len(lineText) : lineText[k] = t
      first == IF Len(lineText) = 0 THEN None ELSE lineText[1]
  IN CASE patternInfo.featureId = "js-optional-chaining" ->
            IF has("?.") /\ ~has("?") THEN 90 ELSE 30
       [] patternInfo.featureId = "js-private-fields" ->
            IF has("class ") \/ first = "#x" THEN 90 ELSE 40
       [] patternInfo.featureId = "js-top-level-await" ->
            IF ~has("async") /\ first = "await" THEN 80 ELSE 30
       [] OTHER -> patternInfo.confidence

Detection(feature, startPos, endPos, confidence, method) ==
  [featureId |-> feature.feature_id,
   startLine |-> startPos.line, startChar |-> startPos.character,
   endLine |-> endPos.line, endChar |-> endPos.character,
   severity |-> getSeverity(feature),
   confidence |-> confidence, detectionMethod |-> method]

(* RegexLoopBody that applies the context threshold to every rule *)
RegexLoopBody_FilterAll(patternInfo, text, api, m, out) ==
  LET feature == getFeature(api, patternInfo.featureId)
      startPos == positionAt(text, m.index)
      endPos == positionAt(text, m.index + m.len)
      confidence == IF patternInfo.contextRequired
                    THEN validateContext(lineAt(text, startPos.line), patternInfo)
                    ELSE patternInfo.confidence
  IN IF ~feature.found
     THEN [out |-> out, lastIndex |-> m.lastIndex]
     ELSE IF confidence < MinContextConfidence
     THEN [out |-> out, lastIndex |-> m.lastIndex]
     ELSE [out |-> Append(out, Detection(feature, startPos, endPos,
                                         confidence, "regex")),
           lastIndex |-> IF m.index = m.lastIndex
                         THEN m.lastIndex + 1 ELSE m.lastIndex]

(* One pass through the body of the while loop of detectWithRegex for the  *)
(* match m: the detections so far and the rule's lastIndex afterwards.     *)
(* Both `continue` statements leave the body before the zero-length guard. *)
RegexLoopBody(patternInfo, text, api, m, out) ==
  LET feature == getFeature(api, patternInfo.featureId)
      startPos == positionAt(text, m.index)
      endPos == positionAt(text, m.index + m.len)
      confidence == IF patternInfo.contextRequired
                    THEN validateContext(lineAt(text, startPos.line), patternInfo)
                    ELSE patternInfo.confidence
  IN IF ~feature.found
     THEN [out |-> out, lastIndex |-> m.lastIndex]
     ELSE IF patternInfo.contextRequired /\ confidence < MinContextConfidence
     THEN [out |-> out, lastIndex |-> m.lastIndex]
     ELSE [out |-> Append(out, Detection(feature, startPos, endPos,
                                         confidence, "regex")),
           lastIndex |-> IF m.index = m.lastIndex
                         THEN m.lastIndex + 1 ELSE m.lastIndex]

RECURSIVE RegexLoop(_, _, _, _, _)
(* the while loop of detectWithRegex for one rule, from lastIndex li on *)
RegexLoop(patternInfo, text, api, li, out) ==
  LET m == Exec(patternInfo.pattern, text, li)
  IN IF ~m.found THEN out
     ELSE LET r == RegexLoopBody(patternInfo, text, api, m, out)
          IN RegexLoop(patternInfo, text, api, r.lastIndex, r.out)

RECURSIVE RegexRules(_, _, _, _, _, _)
(* the for loop of detectWithRegex over the applicable rules, from rule k *)
RegexRules(patterns, k, text, languageId, api, out) ==
  IF k > Len(patterns) THEN out
  ELSE IF hasAstPattern(patterns[k]) /\ isTypeScriptLike(languageId)
  THEN RegexRules(patterns, k + 1, text, languageId, api, out)
  ELSE RegexRules(patterns, k + 1, text, languageId, api,
                  RegexLoop(patterns[k], text, api, 0, out))

(* detectWithRegex without the skip of the rules that have an astPattern *)
detectWithRegex_NoSkip(text, languageId, patterns, api) ==
  RegexRules(patterns, 1, text, None, api, << >>)

detectWithRegex(text, languageId, patterns, api) ==
  RegexRules(patterns, 1, text, languageId, api, << >>)

(* ---------------------------- syntax matcher --------------------------- *)
(* ts.createSourceFile: the node a token parses to.  The tree is flat:     *)
(* the nodes of a text are its tokens, visited left to right.              *)
NodeOf(tok) ==
  CASE tok = "newURLPattern(" ->
         [kind |-> "NewExpression", ident |-> "URLPattern", member |-> None]
    [] tok = "navigator.share(" ->
         [kind |-> "CallExpression", ident |-> "navigator", member |-> "share"]
    [] tok = "fetch(" ->
         [kind |-> "CallExpression", ident |-> None, member |-> None]
    [] tok = "x.share(" ->
         [kind |-> "CallExpression", ident |-> "x", member |-> "share"]
    [] tok = "a.b.share(" ->
         [kind |-> "CallExpression", ident |-> None, member |-> "share"]
    [] tok = "navigator.vibrate(" ->
         [kind |-> "CallExpression", ident |-> "navigator", member |-> "vibrate"]
    [] tok = "newa.URLPattern(" ->
         [kind |-> "NewExpression", ident |-> None, member |-> None]
    [] tok = "newFoo(" ->
         [kind |-> "NewExpression", ident |-> "Foo", member |-> None]
    [] tok = "a?.b" ->
         [kind |-> "OptionalAccess", ident |-> "a", member |-> "b"]
    [] tok = "a.b" ->
         [kind |-> "PropertyAccess", ident |-> "a", member |-> "b"]
    [] OTHER -> [kind |-> "Other", ident |-> None, member |-> None]

(* A text with the token DEEP is an expression nested so deeply that       *)
(* parsing or the recursive visit overflows the stack (a RangeError).      *)
(* The visit of the first rule with an astPattern already throws, before   *)
(* any detection is pushed.                                                *)
ParseThrows(text) == \E i \in 1..Len(text) : text[i] = "DEEP"

(* NodeMatches that never looks at the receiver of a call *)
NodeMatches_AnyReceiver(node, astPattern) ==
  IF astPattern.nodeType = "NewExpression" /\ node.kind = "NewExpression"
  THEN node.ident # None /\ astPattern.objectName # None
       /\ node.ident = astPattern.objectName
  ELSE IF astPattern.nodeType = "CallExpression" /\ node.kind = "CallExpression"
  THEN /\ node.member # None
       /\ astPattern.methodName # None /\ node.member = astPattern.methodName
  ELSE IF astPattern.nodeType = "QuestionDotToken"
  THEN node.kind = "OptionalAccess"
  ELSE FALSE

(* the test of visit(node) for one rule's astPattern *)
NodeMatches(node, astPattern) ==
  IF astPattern.nodeType = "NewExpression" /\ node.kind = "NewExpression"
  THEN node.ident # None /\ astPattern.objectName # None
       /\ node.ident = astPattern.objectName
  ELSE IF astPattern.nodeType = "CallExpression" /\ node.kind = "CallExpression"
  THEN /\ node.member # None
       /\ astPattern.methodName # None /\ node.member = astPattern.methodName
       /\ (astPattern.objectName # None =>
             node.ident # None /\ node.ident = astPattern.objectName)
  ELSE IF astPattern.nodeType = "QuestionDotToken"
  THEN node.kind = "OptionalAccess"
  ELSE FALSE

RECURSIVE findASTNodes_LastFirst(_, _, _)
(* findASTNodes that pushes a node after the nodes that follow it *)
findASTNodes_LastFirst(text, patternInfo, i) ==
  IF i >= Len(text) THEN << >>
  ELSE findASTNodes_LastFirst(text, patternInfo, i + 1) \o
       (IF NodeMatches(NodeOf(text[i + 1]), patternInfo.astPattern)
        THEN << i >> ELSE << >>)

(* findASTNodes whose visit does not descend into the children *)
findASTNodes_NoDescent(text, patternInfo, i) == << >>

RECURSIVE findASTNodes(_, _, _)
(* offsets of the nodes matching the rule, in visit order, from offset i *)
findASTNodes(text, patternInfo, i) ==
  IF i >= Len(text) THEN << >>
  ELSE (IF NodeMatches(NodeOf(text[i + 1]), patternInfo.astPattern)
        THEN << i >> ELSE << >>) \o findASTNodes(text, patternInfo, i + 1)

RECURSIVE AstNodes(_, _, _, _, _, _)
(* the inner loop of detectWithAST over the nodes of one rule *)
AstNodes(patternInfo, nodes, n, text, api, out) ==
  IF n > Len(nodes) THEN out
  ELSE LET feature == getFeature(api, patternInfo.featureId)
       IN IF ~feature.found
          THEN AstNodes(patternInfo, nodes, n + 1, text, api, out)
          ELSE AstNodes(patternInfo, nodes, n + 1, text, api,
                 Append(out, Detection(feature, positionAt(text, nodes[n]),
                                       positionAt(text, nodes[n] + 1),
                                       patternInfo.confidence, "ast")))

RECURSIVE AstRules(_, _, _, _, _)
(* the outer loop of detectWithAST over the rules with an astPattern *)
AstRules(astPatterns, k, text, api, out) ==
  IF k > Len(astPatterns) THEN out
  ELSE AstRules(astPatterns, k + 1, text, api,
                AstNodes(astPatterns[k], findASTNodes(text, astPatterns[k], 0),
                         1, text, api, out))

RECURSIVE AstRulesAbort(_, _, _, _, _)
AstRulesAbort(astPatterns, k, text, api, out) ==
  IF k > Len(astPatterns) THEN out
  ELSE IF /\ findASTNodes(text, astPatterns[k], 0) # << >>
          /\ ~getFeature(api, astPatterns[k].featureId).found
  THEN out
  ELSE AstRulesAbort(astPatterns, k + 1, text, api,
                AstNodes(astPatterns[k], findASTNodes(text, astPatterns[k], 0),
                         1, text, api, out))

(* detectWithAST with `return detectedFeatures` for `continue` on a lookup *)
(* miss: the first unknown feature ends the pass                           *)
detectWithAST_AbortOnMiss(text, patterns, api) ==
  IF ParseThrows(text) THEN << >>
  ELSE AstRulesAbort(SelectSeq(patterns, hasAstPattern), 1, text, api, << >>)

detectWithAST(text, patterns, api) ==
  IF ParseThrows(text) THEN << >>
  ELSE AstRules(SelectSeq(patterns, hasAstPattern), 1, text, api, << >>)

(* --------------------------- Map (insertion order) --------------------- *)
(* A JavaScript Map is the sequence of its entries in insertion order.     *)
MapHas(m, key) == \E i \in 1..Len(m) : m[i].key = key

MapGet(m, key) == m[CHOOSE i \in 1..Len(m) : m[i].key = key].value

(* set keeps the position of a key already present, else appends *)
MapSet(m, key, value) ==
  IF MapHas(m, key)
  THEN [i \in 1..Len(m) |->
          IF m[i].key = key THEN [key |-> key, value |-> value] ELSE m[i]]
  ELSE Append(m, [key |-> key, value |-> value])

MapDelete(m, key) == SelectSeq(m, LAMBDA e : e.key # key)

MapValues(m) == [i \in 1..Len(m) |-> m[i].value]

(* ----------------------------- result merger --------------------------- *)
(* `${feature.feature.feature_id}-${feature.range.start.line}` *)
MergeKey(f) == << f.featureId, "-", f.startLine >>

RECURSIVE Dedup_LastWins(_, _, _)
(* Dedup with `<=` for `<`: on equal confidence the later detection wins *)
Dedup_LastWins(features, i, seen) ==
  IF i > Len(features) THEN seen
  ELSE LET f == features[i]
           key == MergeKey(f)
       IN IF ~MapHas(seen, key) \/ MapGet(seen, key).confidence <= f.confidence
          THEN Dedup_LastWins(features, i + 1, MapSet(seen, key, f))
          ELSE Dedup_LastWins(features, i + 1, seen)

RECURSIVE Dedup(_, _, _)
(* the for loop of filterAndDeduplicateFeatures, from element i on *)
Dedup(features, i, seen) ==
  IF i > Len(features) THEN seen
  ELSE LET f == features[i]
           key == MergeKey(f)
       IN IF ~MapHas(seen, key) \/ MapGet(seen, key).confidence < f.confidence
          THEN Dedup(features, i + 1, MapSet(seen, key, f))
          ELSE Dedup(features, i + 1, seen)

(* filterAndDeduplicateFeatures that hands the raw detections on *)
filterAndDeduplicateFeatures_Raw(features) == features

(* filterAndDeduplicateFeatures with `>` for `>=` in the confidence filter *)
filterAndDeduplicateFeatures_Strict(features) ==
  SelectSeq(MapValues(Dedup(features, 1, << >>)),
            LAMBDA f : f.confidence > MinConfidence)

filterAndDeduplicateFeatures(features) ==
  SelectSeq(MapValues(Dedup(features, 1, << >>)),
            LAMBDA f : f.confidence >= MinConfidence)

(* ------------------------------- inputs -------------------------------- *)
Docs == {1, 2}

(* document.uri.toString(), as a sequence of characters *)
Uri(d) == IF d = 1 THEN << "a" >> ELSE << "a", "-", 1 >>

LanguageId(d) == IF d = 1 THEN "typescript" ELSE "css"

TextsFor(language) ==
  IF isTypeScriptLike(language)
  THEN { << "newURLPattern(", "navigator.share(", ".animate(", "fetch(", "fetch(" >>,
         << "newURLPattern(", "DEEP", "NL", ".animate(", ".animate(" >> }
  ELSE { << "backdrop-filter:", "backdrop-filter:", "NL", "backdrop-filter:" >> }

EmptyApi == [id \in {} |-> "unknown"]

FullApi ==
  [id \in {"backdrop-filter", "urlpattern", "web-share", "web-animations",
           "fetch", "dialog"} |->
     CASE id = "urlpattern" -> "limited"
       [] id = "web-share" -> "limited"
       [] id = "web-animations" -> "newly"
       [] id = "backdrop-filter" -> "newly"
       [] id = "dialog" -> "unknown"
       [] OTHER -> "widely"]

PartialApi ==
  [id \in {"backdrop-filter", "web-share", "fetch"} |-> FullApi[id]]

ApiData == {FullApi, PartialApi}

(* ------------------------------- state --------------------------------- *)
VARIABLES
  docVersion,   \* document.version of each open document
  docText,      \* document.getText() of each open document
  apiCache,     \* WebStatusApiClient.cache
  cache,        \* EnhancedFeatureDetector.cache, a Map in insertion order
  calls,        \* the detectFeatures calls in flight, by call slot
  draining,     \* the microtask queue is being drained
  inserted,     \* history: cache keys by time of insertion
  lastOp,       \* history: what the last step of detectFeatures did
  headRead,     \* history: the oldest cache entry was returned by a hit
                \* while the cache was more than half full
  lastRet,      \* history: the list last returned for a key, while the
                \* lookup service and the key's cache entry stayed the same
  merge,        \* one run of filterAndDeduplicateFeatures on a given list
  scan,         \* one run of the scan loop of the text matcher on one rule
  pass,         \* one start of the extension and one pass over one text
  changeTimeout, \* the debounce timer of onDidChangeTextDocument
  gemini        \* GeminiService, with the secret storage it reads

mainVars == << docVersion, docText, apiCache, cache,
               calls, draining, inserted, headRead, lastOp, lastRet >>

vars == << docVersion, docText, apiCache, cache, calls, draining,
           inserted, headRead, lastOp, lastRet, merge, scan, pass,
           changeTimeout, gemini >>

Calls == 1..NCalls

(* the call slots used by the runs with free edits *)
FreeCalls == 1..Min({MaxFreeCalls, NCalls})

(* `${document.uri.toString()}-${document.version}` *)
CacheKey(d, version) == Uri(d) \o << "-", version >>

IdleCall == [pc |-> "idle", doc |-> 0, key |-> << >>, detected |-> << >>,
             threw |-> FALSE]

NoOp == [kind |-> "none", call |-> 0, doc |-> 0, key |-> << >>,
         text |-> << >>, api |-> EmptyApi, threw |-> FALSE,
         parsed |-> FALSE, scanned |-> FALSE,
         out |-> << >>, raw |-> << >>, result |-> << >>,
         sizeAfterSet |-> 0, docsAfterSet |-> 0, removed |-> 0,
         evicted |-> NoKey, oldest |-> NoKey, oldestRead |-> FALSE]

NoMerge == [pc |-> "off", features |-> << >>, seen |-> << >>,
            filtered |-> << >>]

NoScan == [pc |-> "off", detector |-> None, rule |-> << >>, text |-> << >>,
           api |-> EmptyApi, lastIndex |-> 0, matchCount |-> 0,
           out |-> << >>]

NoPass == [pc |-> "off", registry |-> << >>, languageId |-> None,
           text |-> << >>, api |-> EmptyApi, parsed |-> FALSE, threw |-> FALSE,
           ast |-> << >>, regex |-> << >>, result |-> << >>, legacy |-> << >>]

(* no timer is pending; no document has been edited *)
NoTimeout == [doc |-> 0, edited |-> {}, started |-> [d \in Docs |-> 0]]

(* a new GeminiService; SecretStorageService has no instance yet *)
NoGemini == [ready |-> FALSE, secret |-> None, genAI |-> None,
             isInitialized |-> FALSE,
             inits |-> [c \in Calls |-> [pc |-> "idle", apiKey |-> None]],
             lastInit |-> [done |-> FALSE, found |-> FALSE,
                           returned |-> FALSE]]

InFlight(c) == calls[c].pc # "idle"

Init ==
  /\ docVersion = [d \in Docs |-> 1]
  /\ docText \in [Docs -> UNION {TextsFor(LanguageId(d)) : d \in Docs}]
  /\ \A d \in Docs : docText[d] \in TextsFor(LanguageId(d))
  /\ apiCache \in ApiData \cup {EmptyApi}
  /\ cache = << >>
  /\ calls = [c \in Calls |-> IdleCall]
  /\ draining = FALSE
  /\ inserted = << >>
  /\ headRead = FALSE
  /\ lastOp = NoOp
  /\ lastRet = {}
  /\ merge = NoMerge
  /\ scan = NoScan
  /\ pass = NoPass
  /\ changeTimeout = NoTimeout
  /\ gemini = NoGemini

(* --------------------------- detection cache --------------------------- *)
(* CacheLookup that refreshes the entry it returns (an LRU touch) *)
CacheLookup_Touch(m, key) ==
  IF MapHas(m, key)
  THEN [hit |-> TRUE, result |-> MapGet(m, key),
        cache |-> MapSet(MapDelete(m, key), key, MapGet(m, key))]
  ELSE [hit |-> FALSE, result |-> << >>, cache |-> m]

(* CacheLookup that returns the first cached list, not the key's *)
CacheLookup_First(m, key) ==
  IF MapHas(m, key)
  THEN [hit |-> TRUE, result |-> m[1].value, cache |-> m]
  ELSE [hit |-> FALSE, result |-> << >>, cache |-> m]

(* detectFeatures, the cache check: whether the key is cached, the list    *)
(* returned on a hit, and the cache afterwards.                            *)
CacheLookup(m, key) ==
  IF MapHas(m, key)
  THEN [hit |-> TRUE, result |-> MapGet(m, key), cache |-> m]
  ELSE [hit |-> FALSE, result |-> << >>, cache |-> m]

(* CacheStore that deletes the newest key, not the first *)
CacheStore_EvictNewest(m, key, filtered) ==
  LET m1 == MapSet(m, key, filtered)
  IN IF Len(m1) > CacheLimit
     THEN MapDelete(m1, m1[Len(m1)].key)
     ELSE m1

(* CacheStore with `>=` for `>` in the size check *)
CacheStore_AtLimit(m, key, filtered) ==
  LET m1 == MapSet(m, key, filtered)
  IN IF Len(m1) >= CacheLimit
     THEN MapDelete(m1, m1[1].key)
     ELSE m1

(* CacheStore that lets the cache grow to one entry more *)
CacheStore_OverByOne(m, key, filtered) ==
  LET m1 == MapSet(m, key, filtered)
  IN IF Len(m1) > CacheLimit + 1
     THEN MapDelete(m1, m1[1].key)
     ELSE m1

(* CacheStore that drops the other versions of the key's document *)
CacheStore_PurgeOldVersions(m, key, filtered) ==
  LET kept == SelectSeq(m, LAMBDA e :
                \/ e.key = key
                \/ SubSeq(e.key, 1, Len(e.key) - 2) # SubSeq(key, 1, Len(key) - 2))
      m1 == MapSet(kept, key, filtered)
  IN IF Len(m1) > CacheLimit
     THEN MapDelete(m1, m1[1].key)
     ELSE m1

(* CacheStore that does not store a new key in a full cache *)
CacheStore_SkipWhenFull(m, key, filtered) ==
  IF Len(m) >= CacheLimit /\ ~MapHas(m, key) THEN m
  ELSE MapSet(m, key, filtered)

(* CacheStore that leaves the eviction to a later step *)
CacheStore_EvictLater(m, key, filtered) == MapSet(m, key, filtered)

(* detectFeatures, "Cache results" and "Limit cache size" *)
CacheStore(m, key, filtered) ==
  LET m1 == MapSet(m, key, filtered)
  IN IF Len(m1) > CacheLimit
     THEN LET firstKey == m1[1].key
          IN IF firstKey # NoKey THEN MapDelete(m1, firstKey) ELSE m1
     ELSE m1

MapKeys(m) == {m[i].key : i \in 1..Len(m)}

(* the document identities of the entries of the cache *)
DocsOf(m) == {SubSeq(k, 1, Len(k) - 2) : k \in MapKeys(m)}

(* AstOutcome without the catch block: the exception leaves detectWithAST *)
AstOutcome_Rethrow(text, patterns, api) ==
  [out |-> detectWithAST(text, patterns, api),
   threw |-> ParseThrows(text),
   failed |-> ParseThrows(text)]

(* detectWithAST with its try/catch: the detections returned, whether the  *)
(* catch block ran, and whether the exception left the function.           *)
AstOutcome(text, patterns, api) ==
  [out |-> detectWithAST(text, patterns, api),
   threw |-> ParseThrows(text),
   failed |-> FALSE]

(* ------------------------------ actions -------------------------------- *)
(* detectFeatures(document) up to its first suspension point: a cache hit  *)
(* returns at once; a miss runs the syntax matcher (program-like language) *)
(* or the text matcher, and suspends at the await.  A call takes the       *)
(* lowest free call slot.                                                  *)
DetectBegin(c, d) ==
  LET key == CacheKey(d, docVersion[d])
      language == LanguageId(d)
      patterns == getPatternsForLanguage(language)
      look == CacheLookup(cache, key)
      ast == AstOutcome(docText[d], patterns, apiCache)
      regex == detectWithRegex(docText[d], language, patterns, apiCache)
  IN /\ ~draining
     /\ ~InFlight(c)
     /\ \A o \in Calls : o < c => InFlight(o)
     /\ IF look.hit
        THEN /\ cache' = look.cache
             /\ headRead' = (headRead \/ (key = cache[1].key
                                           /\ 2 * Len(cache) > CacheLimit))
             /\ calls' = calls
             /\ lastRet' = {r \in lastRet : r.key # key}
                             \cup {[key |-> key, list |-> look.result]}
             /\ lastOp' = [NoOp EXCEPT !.kind = "hit", !.call = c, !.doc = d,
                             !.key = key, !.result = look.result]
        ELSE /\ cache' = cache
             /\ headRead' = headRead
             /\ lastRet' = lastRet
             /\ IF isTypeScriptLike(language)
                THEN /\ calls' = [calls EXCEPT ![c] =
                          [pc |-> IF ast.failed THEN "failed" ELSE "awaitAST",
                           doc |-> d, key |-> key, detected |-> ast.out,
                           threw |-> ast.threw]]
                     /\ lastOp' = [NoOp EXCEPT !.kind = "ast", !.call = c,
                             !.doc = d, !.key = key, !.text = docText[d],
                             !.api = apiCache, !.threw = ast.threw,
                             !.parsed = TRUE, !.out = ast.out, !.raw = ast.out]
                ELSE /\ calls' = [calls EXCEPT ![c] =
                          [pc |-> "awaitRegex", doc |-> d, key |-> key,
                           detected |-> regex, threw |-> FALSE]]
                     /\ lastOp' = [NoOp EXCEPT !.kind = "regex", !.call = c,
                             !.doc = d, !.key = key, !.text = docText[d],
                             !.api = apiCache, !.scanned = TRUE,
                             !.out = regex, !.raw = regex]
     /\ UNCHANGED << docVersion, docText, apiCache,
                     draining, inserted, merge, scan, pass >>

(* a call made while no timer or service changes *)
DetectStart(c, d) ==
  /\ DetectBegin(c, d)
  /\ UNCHANGED << changeTimeout, gemini >>

(* detectFeatures resumed after `await this.detectWithAST(...)`: the text  *)
(* matcher runs over the document as it is now.                            *)
DetectResumeAST(c) ==
  LET d == calls[c].doc
      language == LanguageId(d)
      regex == detectWithRegex(docText[d], language,
                               getPatternsForLanguage(language), apiCache)
  IN /\ calls[c].pc = "awaitAST"
     /\ calls' = [calls EXCEPT ![c].pc = "awaitRegex",
                               ![c].detected = calls[c].detected \o regex]
     /\ draining' = TRUE
     /\ lastOp' = [NoOp EXCEPT !.kind = "regex", !.call = c, !.doc = d,
                     !.key = calls[c].key, !.text = docText[d],
                     !.api = apiCache, !.threw = calls[c].threw,
                     !.scanned = TRUE, !.out = regex,
                     !.raw = calls[c].detected \o regex]
     /\ UNCHANGED << docVersion, docText, apiCache,
                     cache, inserted, headRead, lastRet, merge, scan, pass,
                  changeTimeout, gemini >>

(* detectFeatures resumed after `await this.detectWithRegex(...)`: merge,  *)
(* store, limit the cache size, return.                                    *)
DetectFinish(c) ==
  LET key == calls[c].key
      filtered == filterAndDeduplicateFeatures(calls[c].detected)
      afterSet == MapSet(cache, key, filtered)
      stored == CacheStore(cache, key, filtered)
      removed == MapKeys(afterSet) \ MapKeys(stored)
      evicted == IF removed = {} THEN NoKey ELSE CHOOSE k \in removed : TRUE
      ins == IF MapHas(cache, key) THEN inserted ELSE Append(inserted, key)
  IN /\ calls[c].pc = "awaitRegex"
     /\ cache' = stored
     /\ calls' = [calls EXCEPT ![c] = IdleCall]
     /\ draining' = (\E o \in Calls \ {c} : InFlight(o))
     /\ inserted' = SelectSeq(ins, LAMBDA k : k \notin removed)
     /\ headRead' = (headRead /\ removed = {})
     /\ lastRet' = {r \in lastRet : r.key # key /\ r.key \notin removed}
                   \cup {[key |-> key, list |-> filtered]}
     /\ lastOp' = [NoOp EXCEPT !.kind = "store", !.call = c,
                     !.doc = calls[c].doc, !.key = key,
                     !.threw = calls[c].threw, !.raw = calls[c].detected,
                     !.result = filtered, !.sizeAfterSet = Len(afterSet),
                     !.docsAfterSet = Cardinality(DocsOf(afterSet)),
                     !.removed = Cardinality(removed),
                     !.evicted = evicted, !.oldest = Head(ins),
                     !.oldestRead = headRead]
     /\ UNCHANGED << docVersion, docText, apiCache, merge, scan, pass,
                  changeTimeout, gemini >>

(* the host applies an edit: the text becomes t, the version the next one *)
Edit(d, t) ==
  /\ ~draining
  /\ docVersion[d] < MaxVersion
  /\ docText' = [docText EXCEPT ![d] = t]
  /\ docVersion' = [docVersion EXCEPT ![d] = @ + 1]
  /\ lastOp' = NoOp
  /\ UNCHANGED << apiCache, cache, calls, draining,
                  inserted, headRead, lastRet, merge, scan, pass,
                  changeTimeout, gemini >>

(* any edit, to any text of the document's language *)
EditAny(d) ==
  /\ docVersion[d] < MaxFreeVersion
  /\ \E t \in TextsFor(LanguageId(d)) : Edit(d, t)

Next ==
  \/ \E c \in FreeCalls, d \in Docs : DetectStart(c, d)
  \/ \E c \in Calls : DetectResumeAST(c)
  \/ \E c \in Calls : DetectFinish(c)
  \/ \E d \in Docs : EditAny(d)

Spec == Init /\ [][Next]_vars

(* ---------------- long runs: the cache reaches its capacity ------------- *)
(* The text of document d at version v, for the runs in which every        *)
(* version is analysed before the next edit arrives.                       *)
TextAt(d, v) ==
  IF d = 1
  THEN IF v % 2 = 1
       THEN << "newURLPattern(", "navigator.share(", ".animate(", "fetch(", "fetch(" >>
       ELSE << "newURLPattern(", "DEEP", "NL", ".animate(", ".animate(" >>
  ELSE << "backdrop-filter:", "backdrop-filter:", "NL", "backdrop-filter:" >>

InitCache ==
  /\ Init
  /\ apiCache = FullApi
  /\ docText = [d \in Docs |-> TextAt(d, 1)]

(* an edit of a document whose current version has been analysed *)
EditAnalysed(d) ==
  /\ MapHas(cache, CacheKey(d, docVersion[d]))
  /\ Edit(d, TextAt(d, docVersion[d] + 1))

(* an analysis requested while no other one is in flight *)
DetectAlone(d) ==
  /\ \A c \in Calls : ~InFlight(c)
  /\ DetectStart(1, d)

NextCache ==
  \/ \E d \in Docs : DetectAlone(d)
  \/ \E c \in Calls : DetectResumeAST(c)
  \/ \E c \in Calls : DetectFinish(c)
  \/ \E d \in Docs : EditAnalysed(d)

SpecCache == InitCache /\ [][NextCache]_vars

(* ------------- lifecycle: a nearly full cache, concurrent calls -------- *)
(* clearCache that keeps the newest entry *)
clearCache_KeepNewest(m) ==
  IF m = << >> THEN m ELSE << m[Len(m)] >>

(* EnhancedFeatureDetector.clearCache: `this.cache.clear()` *)
clearCache(m) == << >>

(* detectFeatures on a miss, from the filter of the registry to the merged *)
(* list, when no edit arrives between its steps                            *)
Pipeline(text, languageId, api) ==
  LET patterns == getPatternsForLanguage(languageId)
      astFeatures == IF isTypeScriptLike(languageId)
                     THEN AstOutcome(text, patterns, api).out
                     ELSE << >>
      regexFeatures == detectWithRegex(text, languageId, patterns, api)
  IN filterAndDeduplicateFeatures(astFeatures \o regexFeatures)

(* the nine analyses made before the run starts, in the order they were   *)
(* made: the five versions of document 1 and the four of document 2 that   *)
(* precede the last edits the version cap allows, alternating              *)
Analysed ==
  [i \in 1..(CacheLimit - 1) |->
     << IF i % 2 = 1 THEN 1 ELSE 2, MaxVersion - 6 + (i + 1) \div 2 >>]

AnalysedEntry(i) ==
  [key |-> CacheKey(Analysed[i][1], Analysed[i][2]),
   value |-> Pipeline(TextAt(Analysed[i][1], Analysed[i][2]),
                      LanguageId(Analysed[i][1]), FullApi)]

(* the state reached by analysing every version of Analysed and then       *)
(* editing document 2 once more: one edit of each document is left         *)
InitFull ==
  /\ docVersion = [d \in Docs |-> MaxVersion - 1]
  /\ docText = [d \in Docs |-> TextAt(d, MaxVersion - 1)]
  /\ apiCache = FullApi
  /\ cache = [i \in 1..Len(Analysed) |-> AnalysedEntry(i)]
  /\ calls = [c \in Calls |-> IdleCall]
  /\ draining = FALSE
  /\ inserted = [i \in 1..Len(Analysed) |-> AnalysedEntry(i).key]
  /\ headRead = FALSE
  /\ lastOp = NoOp
  /\ lastRet = {[key |-> AnalysedEntry(i).key, list |-> AnalysedEntry(i).value] :
                  i \in 1..Len(Analysed)}
  /\ merge = NoMerge
  /\ scan = NoScan
  /\ pass = NoPass
  /\ changeTimeout = NoTimeout
  /\ gemini = NoGemini

(* the next edit of a document *)
EditNext(d) == Edit(d, TextAt(d, docVersion[d] + 1))

(* featureDetector.clearCache(), called between two host events *)
ClearCache ==
  /\ ~draining
  /\ cache' = clearCache(cache)
  /\ inserted' = SelectSeq(inserted, LAMBDA k : MapHas(cache', k))
  /\ headRead' = FALSE
  /\ lastRet' = {r \in lastRet : MapHas(cache', r.key)}
  /\ lastOp' = [NoOp EXCEPT !.kind = "clear", !.sizeAfterSet = Len(cache)]
  /\ UNCHANGED << docVersion, docText, apiCache, calls, draining, merge, scan, pass,
                  changeTimeout, gemini >>

(* CompatibilityDiagnosticProvider.dispose: the diagnostics go, then *)
(* featureDetector.clearCache()                                      *)
Dispose ==
  /\ ~draining
  /\ cache' = clearCache(cache)
  /\ inserted' = SelectSeq(inserted, LAMBDA k : MapHas(cache', k))
  /\ headRead' = FALSE
  /\ lastRet' = {r \in lastRet : MapHas(cache', r.key)}
  /\ lastOp' = [NoOp EXCEPT !.kind = "dispose", !.sizeAfterSet = Len(cache)]
  /\ UNCHANGED << docVersion, docText, apiCache, calls, draining, merge, scan, pass,
                  changeTimeout, gemini >>

(* onDidCloseTextDocument: diagnosticProvider.clearDiagnostics(document), *)
(* which deletes the document's diagnostics and nothing else              *)
CloseDocument(d) ==
  /\ ~draining
  /\ lastOp' = [NoOp EXCEPT !.kind = "close", !.doc = d,
                            !.sizeAfterSet = Len(cache)]
  /\ UNCHANGED << docVersion, docText, apiCache, cache, calls, draining,
                  inserted, headRead, lastRet, merge, scan, pass,
                  changeTimeout, gemini >>

NextFull ==
  \/ \E c \in Calls, d \in Docs : DetectStart(c, d)
  \/ \E c \in Calls : DetectResumeAST(c)
  \/ \E c \in Calls : DetectFinish(c)
  \/ \E d \in Docs : EditNext(d)
  \/ ClearCache
  \/ Dispose
  \/ \E d \in Docs : CloseDocument(d)

SpecFull == InitFull /\ [][NextFull]_vars

(* The host runs the continuation of every settled await: a call that is   *)
(* suspended at `await detectWithAST` or `await detectWithRegex` is        *)
(* resumed, since both promises settle without waiting for anything.       *)
(* Resumes(c) and Finishes(c) are the steps DetectResumeAST(c) and         *)
(* DetectFinish(c) seen on `calls` alone; the first disjunct of Resumes is *)
(* the resumption that finds nothing, written out so that the enabling     *)
(* condition can be computed without running the text matcher.             *)
Resumes(c) ==
  /\ calls[c].pc = "awaitAST"
  /\ \/ calls' = [calls EXCEPT ![c].pc = "awaitRegex"]
     \/ calls'[c].pc = "awaitRegex"

Finishes(c) ==
  /\ calls[c].pc = "awaitRegex"
  /\ calls' = [calls EXCEPT ![c] = IdleCall]

SpecFair ==
  /\ InitFull
  /\ [][NextFull]_vars
  /\ \A c \in Calls : WF_calls(Resumes(c)) /\ WF_calls(Finishes(c))

(* ------------------- the Refresh command (extension.ts) ---------------- *)
(* what WebStatusApiClient.cache can hold after forceRefresh() and          *)
(* fetchFeatures(): the data of the response, or nothing when the request   *)
(* failed after the cache had been cleared                                  *)
FetchOutcomes == ApiData \cup {EmptyApi}

(* baselineGuard.refresh up to the analysis of the active document d:      *)
(* apiClient.forceRefresh() and `await apiClient.fetchFeatures()`.  The     *)
(* detection cache of the feature detector is not touched.                 *)
RefreshFetch(d, data) ==
  /\ ~draining
  /\ \A c \in Calls : ~InFlight(c)
  /\ lastOp.kind # "refresh"
  /\ apiCache' = data
  /\ lastRet' = {}
  /\ lastOp' = [NoOp EXCEPT !.kind = "refresh", !.doc = d, !.api = data]
  /\ UNCHANGED << docVersion, docText, cache, calls, draining,
                  inserted, headRead, merge, scan, pass,
                  changeTimeout, gemini >>

(* the command goes on: `await analyzeDocument(activeEditor.document)`,    *)
(* that is provideDiagnostics, which publishes what detectFeatures returns *)
RefreshAnalyse(c) ==
  /\ lastOp.kind = "refresh"
  /\ DetectStart(c, lastOp.doc)

(* an analysis asked for by an editor event *)
Analyse(c, d) ==
  /\ lastOp.kind # "refresh"
  /\ DetectStart(c, d)

InitRefresh == Init

NextRefresh ==
  \/ \E c \in FreeCalls, d \in Docs : Analyse(c, d)
  \/ \E c \in Calls : DetectResumeAST(c)
  \/ \E c \in Calls : DetectFinish(c)
  \/ \E d \in Docs, data \in FetchOutcomes : RefreshFetch(d, data)
  \/ \E c \in FreeCalls : RefreshAnalyse(c)

SpecRefresh == InitRefresh /\ [][NextRefresh]_vars

(* ------------- the debounce of document changes (extension.ts) --------- *)
(* onDidChangeTextDocument for a document of a supported language: the     *)
(* host has applied the change; the handler clears the pending timer,      *)
(* whichever document it was set for, and sets a timer of one second for   *)
(* this document.                                                          *)
ChangeTextDocument(d) ==
  /\ ~draining
  /\ docVersion[d] < 1 + MaxBurst
  /\ docText' = [docText EXCEPT ![d] = TextAt(d, docVersion[d] + 1)]
  /\ docVersion' = [docVersion EXCEPT ![d] = @ + 1]
  /\ changeTimeout' = [doc |-> d,
                       edited |-> changeTimeout.edited \cup {d},
                       started |-> [changeTimeout.started EXCEPT ![d] = 0]]
  /\ lastOp' = NoOp
  /\ UNCHANGED << apiCache, cache, calls, draining, inserted, headRead,
                  lastRet, merge, scan, pass, gemini >>

(* the timer expires: `await analyzeDocument(event.document)`, which calls *)
(* detectFeatures on the document as it is now                             *)
TimeoutFires(c) ==
  /\ changeTimeout.doc # 0
  /\ DetectBegin(c, changeTimeout.doc)
  /\ changeTimeout' = [changeTimeout EXCEPT
                         !.doc = 0, !.started[changeTimeout.doc] = @ + 1]
  /\ UNCHANGED gemini

InitDebounce ==
  /\ InitCache

NextDebounce ==
  \/ \E d \in Docs : ChangeTextDocument(d)
  \/ \E c \in Calls : TimeoutFires(c)
  \/ \E c \in FreeCalls, d \in Docs : Analyse(c, d)
  \/ \E c \in Calls : DetectResumeAST(c)
  \/ \E c \in Calls : DetectFinish(c)

(* a timer that stays pending expires: TimeoutFires seen on the timer      *)
(* alone                                                                   *)
Expires ==
  /\ changeTimeout.doc # 0
  /\ changeTimeout' = [changeTimeout EXCEPT
                         !.doc = 0, !.started[changeTimeout.doc] = @ + 1]

(* The host runs every timer that is not cleared and the continuation of   *)
(* every settled await; nothing makes the user switch editors.             *)
SpecDebounce ==
  /\ InitDebounce
  /\ [][NextDebounce]_vars
  /\ WF_changeTimeout(Expires)
  /\ \A c \in Calls : WF_calls(Resumes(c)) /\ WF_calls(Finishes(c))

(* ------------- the result merger on its own: any raw list -------------- *)
RawDetections ==
  { [featureId |-> k[1], startLine |-> k[2], startChar |-> ch,
     endLine |-> k[2], endChar |-> ch + 1, severity |-> "Hint",
     confidence |-> cf, detectionMethod |-> "regex"] :
      k \in { << "fetch", 0 >>, << "fetch", 1 >>, << "dialog", 0 >> },
      ch \in {0, 1}, cf \in {40, 60, 90} }

RawLists == UNION { [1..n -> RawDetections] : n \in 0..MaxRaw }

IdleMain ==
  /\ docVersion = [d \in Docs |-> 1]
  /\ docText = [d \in Docs |-> TextAt(d, 1)]
  /\ apiCache = FullApi
  /\ cache = << >>
  /\ calls = [c \in Calls |-> IdleCall]
  /\ draining = FALSE
  /\ inserted = << >>
  /\ headRead = FALSE
  /\ lastOp = NoOp
  /\ lastRet = {}

InitMerge ==
  /\ IdleMain
  /\ merge \in { [pc |-> "dedup", features |-> f, seen |-> << >>,
                  filtered |-> << >>] : f \in RawLists }
  /\ scan = NoScan
  /\ pass = NoPass
  /\ changeTimeout = NoTimeout
  /\ gemini = NoGemini

(* filterAndDeduplicateFeatures, the for loop over the raw detections *)
MergeDedup ==
  /\ merge.pc = "dedup"
  /\ merge' = [merge EXCEPT !.pc = "filter",
                            !.seen = Dedup(merge.features, 1, << >>)]
  /\ UNCHANGED << mainVars, scan, pass,
                  changeTimeout, gemini >>

(* filterAndDeduplicateFeatures, the confidence filter and the return *)
MergeFilter ==
  /\ merge.pc = "filter"
  /\ merge' = [merge EXCEPT !.pc = "done",
                 !.filtered = filterAndDeduplicateFeatures(merge.features)]
  /\ UNCHANGED << mainVars, scan, pass,
                  changeTimeout, gemini >>

NextMerge == MergeDedup \/ MergeFilter

SpecMerge == InitMerge /\ [][NextMerge]_vars

(* ------------- the scan loop on its own: any rule, any text ------------ *)
(* FeatureDetector.detectFeatures (the legacy detector), one pass through  *)
(* the body of its while loop: the zero-length guard is outside the `if`.  *)
LegacyLoopBody(patternInfo, text, api, m, out) ==
  LET feature == getFeature(api, patternInfo.featureId)
      startPos == positionAt(text, m.index)
      endPos == positionAt(text, m.index + m.len)
  IN [out |-> IF feature.found
              THEN Append(out, [featureId |-> feature.feature_id,
                      startLine |-> startPos.line,
                      startChar |-> startPos.character,
                      endLine |-> endPos.line, endChar |-> endPos.character,
                      severity |-> getSeverityFromStatus(
                                     getBaselineStatus(feature).status),
                      line |-> startPos.line])
              ELSE out,
      lastIndex |-> IF m.index = m.lastIndex
                    THEN m.lastIndex + 1 ELSE m.lastIndex]

ScanRules ==
  { [featureId |-> id, pattern |-> pat, language |-> TypeScriptLike,
     confidence |-> 70, contextRequired |-> ctx, astPattern |-> NoAst] :
      id \in {"fetch", "js-private-fields"},
      pat \in {Tok("x"), Star("x")}, ctx \in BOOLEAN }

ScanTexts ==
  { << >>, << "x" >>, << "y", "x" >>, << "x", "x", "y" >>,
    << "class ", "x" >>, << "y", "NL", "x" >> }

ScanApis ==
  { EmptyApi, [id \in {"fetch", "js-private-fields"} |-> "newly"] }

InitScan ==
  /\ IdleMain
  /\ merge = NoMerge
  /\ scan \in { [pc |-> "loop", detector |-> det, rule |-> r, text |-> t,
                 api |-> a, lastIndex |-> 0, matchCount |-> 0,
                 out |-> << >>] :
                  det \in {"enhanced", "legacy"}, r \in ScanRules,
                  t \in ScanTexts, a \in ScanApis }
  /\ pass = NoPass
  /\ changeTimeout = NoTimeout
  /\ gemini = NoGemini

(* one evaluation of the while condition, `pattern.exec(text)`, and, on a  *)
(* match, one pass through the loop body                                   *)
ScanStep ==
  LET m == Exec(scan.rule.pattern, scan.text, scan.lastIndex)
      r == IF scan.detector = "enhanced"
           THEN RegexLoopBody(scan.rule, scan.text, scan.api, m, scan.out)
           ELSE LegacyLoopBody(scan.rule, scan.text, scan.api, m, scan.out)
  IN /\ scan.pc = "loop"
     /\ scan.matchCount < Len(scan.text) + MaxIter
     /\ IF m.found
        THEN scan' = [scan EXCEPT !.matchCount = @ + 1, !.out = r.out,
                                  !.lastIndex = r.lastIndex]
        ELSE scan' = [scan EXCEPT !.pc = "done", !.lastIndex = m.lastIndex]
     /\ UNCHANGED << mainVars, merge, pass,
                  changeTimeout, gemini >>

NextScan == ScanStep

SpecScan == InitScan /\ [][NextScan]_vars

(* ---------- the scan loop on rules that may need their context --------- *)
(* rules for the feature ids validateContext knows and for one it does not, *)
(* with a base confidence above and below the context threshold            *)
ContextRules ==
  { [featureId |-> r[1], pattern |-> Tok(r[2]), language |-> TypeScriptLike,
     confidence |-> conf, contextRequired |-> ctx, astPattern |-> NoAst] :
      r \in { << "js-optional-chaining", "?." >>, << "js-private-fields", "#x" >>,
              << "js-top-level-await", "await" >>,
              << "web-animations", ".animate(" >> },
      conf \in {40, 70}, ctx \in BOOLEAN }

ContextTexts ==
  { << "y", "?.", "y" >>, << "y", "?.", "y", "?", "y" >>,
    << "class ", "#x" >>, << "#x", "y" >>, << "y", "#x" >>,
    << "class ", "NL", "y", "#x" >>,
    << "await", "y" >>, << "async", "await" >>, << "y", "await" >>,
    << "y", ".animate(" >>,
    << "y", "#x", "NL", "#x", "NL", "await", "?.", "NL", "y", "?", "?." >> }

ContextApi ==
  [id \in {"js-optional-chaining", "js-private-fields", "js-top-level-await",
           "web-animations"} |-> "newly"]

InitContext ==
  /\ IdleMain
  /\ merge = NoMerge
  /\ scan \in { [pc |-> "loop", detector |-> "enhanced", rule |-> r,
                 text |-> t, api |-> ContextApi, lastIndex |-> 0,
                 matchCount |-> 0, out |-> << >>] :
                  r \in ContextRules, t \in ContextTexts }
  /\ pass = NoPass
  /\ changeTimeout = NoTimeout
  /\ gemini = NoGemini

SpecContext == InitContext /\ [][NextScan]_vars

(* -------- the scan of a rule whose cursor an earlier scan has left ----- *)
(* The RegExp objects of the registries are shared by all scans.  A scan   *)
(* that ends normally leaves lastIndex at 0 (the failed exec resets it); a *)
(* scan that an exception cuts short leaves it where the last exec put it, *)
(* which may be past the end of the next, shorter, text.                   *)
CursorRules ==
  { r \in ScanRules : r.pattern.kind = "tok" }

CursorTexts ==
  { << "x" >>, << "x", "y", "x" >>, << "y", "x", "NL", "x", "x" >>,
    << "class ", "x", "NL", "x" >>, << "y", "y" >> }

(* the scan that leaves lastIndex as it finds it *)
ScanReset_Keep ==
  /\ scan.pc = "start"
  /\ scan' = [scan EXCEPT !.pc = "loop"]
  /\ UNCHANGED << mainVars, merge, pass,
                  changeTimeout, gemini >>

(* `patternInfo.pattern.lastIndex = 0`, before the while loop *)
ScanReset ==
  /\ scan.pc = "start"
  /\ scan' = [scan EXCEPT !.pc = "loop", !.lastIndex = 0]
  /\ UNCHANGED << mainVars, merge, pass,
                  changeTimeout, gemini >>

InitCursor ==
  /\ IdleMain
  /\ merge = NoMerge
  /\ scan \in { [pc |-> "start", detector |-> det, rule |-> r, text |-> t,
                 api |-> [id \in {"fetch", "js-private-fields"} |-> "newly"],
                 lastIndex |-> li, matchCount |-> 0, out |-> << >>] :
                  det \in {"enhanced", "legacy"}, r \in CursorRules,
                  t \in CursorTexts, li \in 0..MaxStale }
  /\ pass = NoPass
  /\ changeTimeout = NoTimeout
  /\ gemini = NoGemini

NextCursor == ScanReset \/ ScanStep

SpecCursor == InitCursor /\ [][NextCursor]_vars

(* ------------- findASTNodes on its own: any descriptor, any tree ------- *)
NodeRules ==
  { [featureId |-> "fetch", pattern |-> Tok("none"), language |-> TypeScriptLike,
     confidence |-> 100, contextRequired |-> FALSE,
     astPattern |-> [nodeType |-> t, objectName |-> o, methodName |-> m]] :
      t \in {"NewExpression", "CallExpression", "QuestionDotToken"},
      o \in {None, "URLPattern", "navigator"}, m \in {None, "share"} }

(* trees, as the sequence of their nodes in the order visit reaches them;  *)
(* a node that follows `newURLPattern(` may be one of its arguments        *)
NodeTexts ==
  { << "newURLPattern(", "newURLPattern(", "newFoo(" >>,
    << "newFoo(", "newa.URLPattern(", "newURLPattern(" >>,
    << "navigator.share(", "x.share(", "a.b.share(" >>,
    << "x.share(", "navigator.vibrate(", "fetch(", "navigator.share(" >>,
    << "a?.b", "a.b", "a?.b" >>,
    << "a.b", "newURLPattern(", "a?.b", "navigator.share(" >>,
    << "fetch(", "newURLPattern(", "navigator.share(", "navigator.share(" >>,
    << "x", "NL", "a?.b", "x.share(", "newURLPattern(" >> }

InitNodes ==
  /\ IdleMain
  /\ merge = NoMerge
  /\ scan \in { [pc |-> "visit", detector |-> "ast", rule |-> r, text |-> t,
                 api |-> EmptyApi, lastIndex |-> 0, matchCount |-> 0,
                 out |-> << >>] : r \in NodeRules, t \in NodeTexts }
  /\ pass = NoPass
  /\ changeTimeout = NoTimeout
  /\ gemini = NoGemini

(* findASTNodes(sourceFile, patternInfo): `visit(sourceFile); return nodes` *)
FindNodes ==
  /\ scan.pc = "visit"
  /\ scan' = [scan EXCEPT !.pc = "found",
                          !.out = findASTNodes(scan.text, scan.rule, 0)]
  /\ UNCHANGED << mainVars, merge, pass,
                  changeTimeout, gemini >>

NextNodes == FindNodes

SpecNodes == InitNodes /\ [][NextNodes]_vars

(* ------- one start of the extension, then one pass over one text ------- *)
(* CSS_PATTERNS and JS_PATTERNS of utils/patterns.ts, the registry of the  *)
(* legacy detector; /URLPattern\s*\(/ also matches inside `new URLPattern(` *)
WEB_PATTERNS ==
  << [featureId |-> "content-visibility", pattern |-> Tok("content-visibility:"),
      language |-> {"css", "scss", "less"}],
     [featureId |-> "css-container-queries", pattern |-> Tok("@container("),
      language |-> {"css", "scss", "less"}],
     [featureId |-> "css-aspect-ratio", pattern |-> Tok("aspect-ratio:"),
      language |-> {"css", "scss", "less"}],
     [featureId |-> "urlpattern",
      pattern |-> OneOf({"URLPattern(", "newURLPattern("}),
      language |-> TypeScriptLike],
     [featureId |-> "async-clipboard", pattern |-> Tok("navigator.clipboard"),
      language |-> TypeScriptLike] >>

RECURSIVE LegacyLoop(_, _, _, _, _)
(* the while loop of FeatureDetector.detectFeatures for one rule *)
LegacyLoop(patternInfo, text, api, li, out) ==
  LET m == Exec(patternInfo.pattern, text, li)
  IN IF ~m.found THEN out
     ELSE LET r == LegacyLoopBody(patternInfo, text, api, m, out)
          IN LegacyLoop(patternInfo, text, api, r.lastIndex, r.out)

RECURSIVE LegacyRules(_, _, _, _, _)
LegacyRules(patterns, k, text, api, out) ==
  IF k > Len(patterns) THEN out
  ELSE LegacyRules(patterns, k + 1, text, api,
                   LegacyLoop(patterns[k], text, api, 0, out))

(* FeatureDetector.detectFeatures *)
LegacyDetect(text, languageId, api) ==
  LegacyRules(PatternsIn(WEB_PATTERNS, languageId), 1, text, api, << >>)

(* rules a developer could add to the registry by mistake: a constructor   *)
(* rule without a receiver name, a method rule without a member name, a    *)
(* rule whose text pattern matches the empty string                        *)
NoReceiverRule ==
  [featureId |-> "urlpattern", pattern |-> Tok("newURLPattern("),
   language |-> TypeScriptLike, confidence |-> 100, contextRequired |-> FALSE,
   astPattern |-> [nodeType |-> "NewExpression", objectName |-> None,
                   methodName |-> None]]

NoMemberRule ==
  [featureId |-> "web-share", pattern |-> Tok("navigator.share("),
   language |-> TypeScriptLike, confidence |-> 95, contextRequired |-> FALSE,
   astPattern |-> [nodeType |-> "CallExpression", objectName |-> "navigator",
                   methodName |-> None]]

EmptyPatternRule ==
  [featureId |-> "fetch", pattern |-> Star("fetch("),
   language |-> TypeScriptLike \cup {"css", "html"}, confidence |-> 90,
   contextRequired |-> FALSE, astPattern |-> NoAst]

Registries ==
  { ENHANCED_WEB_PATTERNS,
    Append(ENHANCED_WEB_PATTERNS, NoReceiverRule),
    Append(ENHANCED_WEB_PATTERNS, NoMemberRule),
    Append(ENHANCED_WEB_PATTERNS, EmptyPatternRule) }

PassLanguages == {"typescript", "typescriptreact", "css", "html"}

PassTexts ==
  { << "newURLPattern(" >>,
    << "x", "NL", "newURLPattern(", "fetch(" >>,
    << "newURLPattern(", "newURLPattern(" >>,
    << "newURLPattern(", "DEEP" >>,
    << "navigator.share(", "newURLPattern(", "navigator.share(" >>,
    << "URLPattern(", "navigator.share(", ".animate(" >>,
    << "backdrop-filter:" >>,
    << "x", "NL", "backdrop-filter:", "x" >>,
    << "backdrop-filter:", "backdrop-filter:" >>,
    << "<dialog " >>,
    << "backdrop-filter:", "NL", "<dialog ", "fetch(" >> }

(* lookup-service states in which fetch is known, with every baseline      *)
(* status for urlpattern and for backdrop-filter                           *)
PassApis ==
  { [FullApi EXCEPT !["urlpattern"] = st, !["backdrop-filter"] = st] :
      st \in {"limited", "newly", "widely", "unknown"} } \cup {PartialApi}

InitPass ==
  /\ IdleMain
  /\ merge = NoMerge
  /\ scan = NoScan
  /\ pass \in { [NoPass EXCEPT !.pc = "startup", !.registry = r,
                   !.languageId = l, !.text = t, !.api = a] :
                  r \in Registries, l \in PassLanguages,
                  t \in PassTexts, a \in PassApis }
  /\ changeTimeout = NoTimeout
  /\ gemini = NoGemini

(* activate(): the providers are created and the handlers registered; the  *)
(* registry is the imported constant, used as it is                        *)
Activate ==
  /\ pass.pc = "startup"
  /\ pass' = [pass EXCEPT !.pc = "idle"]
  /\ UNCHANGED << mainVars, merge, scan, changeTimeout, gemini >>

(* detectFeatures on a miss, up to `await this.detectWithAST(...)` *)
PassSyntax ==
  LET patterns == PatternsIn(pass.registry, pass.languageId)
      ast == AstOutcome(pass.text, patterns, pass.api)
  IN /\ pass.pc = "idle"
     /\ IF isTypeScriptLike(pass.languageId)
        THEN pass' = [pass EXCEPT !.pc = "text", !.parsed = TRUE,
                                  !.threw = ast.threw, !.ast = ast.out]
        ELSE pass' = [pass EXCEPT !.pc = "text"]
     /\ UNCHANGED << mainVars, merge, scan, changeTimeout, gemini >>

(* detectFeatures, `await this.detectWithRegex(...)` *)
PassText ==
  /\ pass.pc = "text"
  /\ pass' = [pass EXCEPT !.pc = "merge",
                !.regex = detectWithRegex(pass.text, pass.languageId,
                            PatternsIn(pass.registry, pass.languageId),
                            pass.api)]
  /\ UNCHANGED << mainVars, merge, scan, changeTimeout, gemini >>

(* detectFeatures, the merge and the return *)
PassMerge ==
  /\ pass.pc = "merge"
  /\ pass' = [pass EXCEPT !.pc = "done",
                !.result = filterAndDeduplicateFeatures(pass.ast \o pass.regex)]
  /\ UNCHANGED << mainVars, merge, scan, changeTimeout, gemini >>

(* the legacy detector over the same text *)
PassLegacy ==
  /\ pass.pc = "done"
  /\ pass' = [pass EXCEPT !.pc = "end",
                !.legacy = LegacyDetect(pass.text, pass.languageId, pass.api)]
  /\ UNCHANGED << mainVars, merge, scan, changeTimeout, gemini >>

NextPass == Activate \/ PassSyntax \/ PassText \/ PassMerge \/ PassLegacy

SpecPass == InitPass /\ [][NextPass]_vars

(* ------------------ GeminiService and its API key ---------------------- *)
(* the strings storeGeminiApiKey can be given *)
ApiKeys == {"", "AIza1", "AIza2"}

(* `!apiKey` *)
Falsy(apiKey) == apiKey = None \/ apiKey = ""

(* SecretStorageService.initialize(context), called by activate() *)
SecretStorageInit ==
  /\ ~gemini.ready
  /\ gemini' = [gemini EXCEPT !.ready = TRUE]
  /\ UNCHANGED << mainVars, merge, scan, pass, changeTimeout >>

(* storeGeminiApiKey(apiKey) *)
StoreKey(apiKey) ==
  /\ gemini.ready
  /\ gemini' = [gemini EXCEPT !.secret = apiKey]
  /\ UNCHANGED << mainVars, merge, scan, pass, changeTimeout >>

(* deleteGeminiApiKey() *)
DeleteKey ==
  /\ gemini.ready
  /\ gemini.secret # None
  /\ gemini' = [gemini EXCEPT !.secret = None]
  /\ UNCHANGED << mainVars, merge, scan, pass, changeTimeout >>

(* initialize() up to `await secretStorage.getGeminiApiKey()`; when        *)
(* SecretStorageService has no instance getInstance() throws and the catch *)
(* block runs                                                              *)
InitializeStart(c) ==
  /\ gemini.inits[c].pc = "idle"
  /\ IF gemini.ready
     THEN gemini' = [gemini EXCEPT !.inits[c] =
                       [pc |-> "get", apiKey |-> gemini.secret]]
     ELSE gemini' = [gemini EXCEPT
                       !.isInitialized = FALSE,
                       !.lastInit = [done |-> TRUE, found |-> FALSE,
                                     returned |-> FALSE]]
  /\ UNCHANGED << mainVars, merge, scan, pass, changeTimeout >>

(* initialize() resumed with the key: without a key it returns false and   *)
(* assigns nothing; with a key it creates the client and the model, sets   *)
(* isInitialized and returns true                                          *)
InitializeResume(c) ==
  LET apiKey == gemini.inits[c].apiKey
  IN /\ gemini.inits[c].pc = "get"
     /\ IF Falsy(apiKey)
        THEN gemini' = [gemini EXCEPT
                          !.inits[c] = [pc |-> "idle", apiKey |-> None],
                          !.lastInit = [done |-> TRUE, found |-> FALSE,
                                        returned |-> FALSE]]
        ELSE gemini' = [gemini EXCEPT
                          !.inits[c] = [pc |-> "idle", apiKey |-> None],
                          !.genAI = apiKey,
                          !.isInitialized = TRUE,
                          !.lastInit = [done |-> TRUE, found |-> TRUE,
                                        returned |-> TRUE]]
     /\ UNCHANGED << mainVars, merge, scan, pass, changeTimeout >>

(* GeminiService.isAvailable() *)
isAvailable == gemini.isInitialized

InitGemini ==
  /\ IdleMain
  /\ merge = NoMerge
  /\ scan = NoScan
  /\ pass = NoPass
  /\ changeTimeout = NoTimeout
  /\ gemini = NoGemini

NextGemini ==
  \/ SecretStorageInit
  \/ \E apiKey \in ApiKeys : StoreKey(apiKey)
  \/ DeleteKey
  \/ \E c \in Calls : InitializeStart(c)
  \/ \E c \in Calls : InitializeResume(c)

SpecGemini == InitGemini /\ [][NextGemini]_vars

(* ================================ claims =============================== *)
PatternsOf(d) == getPatternsForLanguage(LanguageId(d))

(* C1: a detectFeatures call whose key (document URI, document version) is *)
(* already cached returns exactly the stored list, runs neither the syntax *)
(* matcher nor the text matcher, and leaves the cache and the calls in     *)
(* flight as they are.                                                     *)
C1_CacheHitReturnsStored ==
  [][\A c \in Calls, d \in Docs :
       (DetectStart(c, d) /\ MapHas(cache, CacheKey(d, docVersion[d]))) =>
          /\ cache' = cache
          /\ calls' = calls
          /\ lastOp'.kind = "hit"
          /\ lastOp'.result = MapGet(cache, CacheKey(d, docVersion[d]))
          /\ ~lastOp'.parsed /\ ~lastOp'.scanned]_vars

(* a hit returned a non-empty stored list while another entry is cached *)
C1_Witness ==
  /\ lastOp.kind = "hit"
  /\ lastOp.result # << >>
  /\ Len(cache) >= 2
  /\ cache[Len(cache)].key # lastOp.key

(* C2: while the lookup service and the key's cache entry stay the same,   *)
(* every detectFeatures call for one (document, version) returns the list  *)
(* the previous call for it returned, whatever calls happen in between.    *)
C2_Determinism ==
  [][\A r1 \in lastRet, r2 \in lastRet' :
       r1.key = r2.key => r1.list = r2.list]_vars

(* a second call for a key returned, after a call for another document *)
C2_Witness ==
  /\ lastOp.kind \in {"hit", "store"}
  /\ lastOp.result # << >>
  /\ \E r \in lastRet : r.key # lastOp.key /\ r.list # lastOp.result
  /\ \E i \in 1..Len(cache) : i < Len(cache) /\ cache[i].key = lastOp.key

(* --- the merger: indices and best detection of a merge key --- *)
KeyIdx(features, k) == {i \in 1..Len(features) : MergeKey(features[i]) = k}

RawKeys(features) == {MergeKey(features[i]) : i \in 1..Len(features)}

MaxConfidence(features, k) ==
  LET cs == {features[i].confidence : i \in KeyIdx(features, k)}
  IN CHOOSE c \in cs : \A o \in cs : o <= c

(* the first detection among those of highest confidence for key k *)
FirstBest(features, k) ==
  features[Min({i \in KeyIdx(features, k) :
                  features[i].confidence = MaxConfidence(features, k)})]

(* C3: every entry of the merged list has confidence >= 0.6, and a merge   *)
(* key (featureId, start line) is in the merged list exactly when the      *)
(* highest confidence among its raw detections is >= 0.6.                  *)
C3_ConfidenceFloor ==
  merge.pc = "done" =>
    /\ \A i \in 1..Len(merge.filtered) :
         merge.filtered[i].confidence >= MinConfidence
    /\ \A k \in RawKeys(merge.features) :
         (\E i \in 1..Len(merge.filtered) : MergeKey(merge.filtered[i]) = k)
           <=> MaxConfidence(merge.features, k) >= MinConfidence

(* one key kept at exactly the floor, another dropped below it *)
C3_Witness ==
  /\ merge.pc = "done"
  /\ \E i \in 1..Len(merge.filtered) :
       merge.filtered[i].confidence = MinConfidence
  /\ \E k \in RawKeys(merge.features) :
       MaxConfidence(merge.features, k) < MinConfidence
  /\ \E k \in RawKeys(merge.features) : Cardinality(KeyIdx(merge.features, k)) > 1

(* C4: raw detections with the same merge key (featureId, start line)      *)
(* collapse to exactly one entry, the first one among those of highest     *)
(* confidence, and the merged list never has two entries with one key.     *)
C4_DedupPrecedence ==
  /\ merge.pc \in {"filter", "done"} =>
       /\ Len(merge.seen) = Cardinality(RawKeys(merge.features))
       /\ \A k \in RawKeys(merge.features) :
            /\ MapHas(merge.seen, k)
            /\ MapGet(merge.seen, k) = FirstBest(merge.features, k)
  /\ merge.pc = "done" =>
       /\ \A i, j \in 1..Len(merge.filtered) :
            MergeKey(merge.filtered[i]) = MergeKey(merge.filtered[j]) => i = j
       /\ \A i \in 1..Len(merge.filtered) :
            merge.filtered[i] =
              FirstBest(merge.features, MergeKey(merge.filtered[i]))

(* 0.6 then 0.9 then 0.9 for one key collapse to the first 0.9 entry *)
C4_Witness ==
  /\ merge.pc = "done"
  /\ Len(merge.features) = 3
  /\ Cardinality(RawKeys(merge.features)) = 1
  /\ merge.features[1].confidence = 60
  /\ merge.features[2].confidence = 90
  /\ merge.features[3].confidence = 90
  /\ merge.features[2] # merge.features[3]
  /\ merge.filtered = << merge.features[2] >>

(* C5: the scan loop of the text matcher considers at most one match per   *)
(* cursor position of the text (offsets 0..length), for every rule, also   *)
(* one whose pattern matches the empty string, on every path through the   *)
(* loop body.                                                              *)
C5_ScanBounded == scan.matchCount <= Len(scan.text) + 1

(* C6: for a program-like language the text matcher emits no detection     *)
(* for a rule that has an astPattern, so no raw list holds a regex         *)
(* detection of such a rule.                                               *)
C6_SyntaxPrecedence ==
  (lastOp.kind \in {"regex", "store"}
     /\ isTypeScriptLike(LanguageId(lastOp.doc))) =>
    \A i \in 1..Len(lastOp.raw) :
      lastOp.raw[i].detectionMethod = "regex" =>
        \A k \in 1..Len(PatternsOf(lastOp.doc)) :
          hasAstPattern(PatternsOf(lastOp.doc)[k]) =>
            PatternsOf(lastOp.doc)[k].featureId # lastOp.raw[i].featureId

(* the text matcher ran over a program-like text in which the text pattern *)
(* of a known rule with an astPattern occurs, found structurally before    *)
C6_Witness ==
  /\ lastOp.kind = "regex"
  /\ isTypeScriptLike(LanguageId(lastOp.doc))
  /\ \E i \in 1..Len(lastOp.text) : lastOp.text[i] = "newURLPattern("
  /\ \E i \in 1..Len(lastOp.raw) :
       lastOp.raw[i].featureId = "urlpattern" /\ lastOp.raw[i].detectionMethod = "ast"
  /\ \E i \in 1..Len(lastOp.raw) : lastOp.raw[i].detectionMethod = "regex"

(* C7: a throw while parsing or traversing leaves the syntax matcher with  *)
(* an empty result and never leaves detectFeatures; the text matcher then  *)
(* runs over the document, and its detections alone are merged, cached and *)
(* returned.                                                               *)
C7_ParseFailureNonFatal ==
  /\ \A c \in Calls : calls[c].pc # "failed"
  /\ (lastOp.kind = "ast" /\ lastOp.threw) =>
       /\ lastOp.out = << >>
       /\ calls[lastOp.call].pc = "awaitAST"
  /\ (lastOp.kind = "regex" /\ lastOp.threw) =>
       /\ lastOp.scanned
       /\ lastOp.raw = lastOp.out
       /\ lastOp.out = detectWithRegex(lastOp.text, LanguageId(lastOp.doc),
                                       PatternsOf(lastOp.doc), lastOp.api)
       /\ calls[lastOp.call].pc = "awaitRegex"
  /\ (lastOp.kind = "store" /\ lastOp.threw) =>
       /\ lastOp.result = filterAndDeduplicateFeatures(lastOp.raw)
       /\ \A i \in 1..Len(lastOp.raw) : lastOp.raw[i].detectionMethod = "regex"
       /\ MapHas(cache, lastOp.key)
       /\ MapGet(cache, lastOp.key) = lastOp.result
       /\ [key |-> lastOp.key, list |-> lastOp.result] \in lastRet

(* the parse of a program-like document threw, and the call stored and     *)
(* returned a non-empty list found by the text matcher                     *)
C7_Witness ==
  /\ lastOp.kind = "store"
  /\ lastOp.threw
  /\ lastOp.result # << >>
  /\ MapGet(cache, lastOp.key) = lastOp.result

(* the lookup service api completed with a record for every other feature *)
KnowAll(api) ==
  [id \in DOMAIN FullApi |-> IF id \in DOMAIN api THEN api[id] ELSE FullApi[id]]

Known(features, api) ==
  SelectSeq(features, LAMBDA f : f.featureId \in DOMAIN api)

(* C8: a feature the lookup service does not know costs exactly the        *)
(* candidate detections of that feature: each matcher emits, in order, the *)
(* detections it would emit if every feature were known, less those of the *)
(* unknown features.                                                       *)
C8_LookupMissLocal ==
  /\ lastOp.kind = "ast" =>
       lastOp.out = Known(detectWithAST(lastOp.text, PatternsOf(lastOp.doc),
                                        KnowAll(lastOp.api)), lastOp.api)
  /\ lastOp.kind = "regex" =>
       lastOp.out = Known(detectWithRegex(lastOp.text, LanguageId(lastOp.doc),
                                          PatternsOf(lastOp.doc),
                                          KnowAll(lastOp.api)), lastOp.api)

(* the syntax matcher skipped the nodes of an unknown feature of an        *)
(* earlier rule and emitted a detection of a later rule                    *)
C8_Witness ==
  /\ lastOp.kind = "ast"
  /\ lastOp.out # << >>
  /\ \E i \in 1..Len(lastOp.text) : lastOp.text[i] = "newURLPattern("
  /\ "urlpattern" \notin DOMAIN lastOp.api
  /\ \E i \in 1..Len(lastOp.out) : lastOp.out[i].featureId = "web-share"

(* C9: the cache keeps its entries in the order of their insertion,        *)
(* whatever hits happened; a store that overflows removes exactly one      *)
(* entry, the one inserted earliest among those present.                   *)
C9_EvictionVictim ==
  /\ inserted = [i \in 1..Len(cache) |-> cache[i].key]
  /\ lastOp.kind = "store" =>
       /\ lastOp.removed <= 1
       /\ lastOp.evicted # NoKey =>
            /\ lastOp.removed = 1
            /\ lastOp.evicted = lastOp.oldest
            /\ ~MapHas(cache, lastOp.evicted)
            /\ Len(cache) = lastOp.sizeAfterSet - 1

(* an overflow evicted the earliest entry although a hit had read it *)
C9_Witness ==
  /\ lastOp.kind = "store"
  /\ lastOp.evicted # NoKey
  /\ lastOp.evicted = lastOp.oldest
  /\ lastOp.oldestRead

(* C10 as stated: a store evicts exactly when the cache then holds entries *)
(* of more than 10 distinct documents.                                     *)
C10_EvictsOnDocumentCount ==
  lastOp.kind = "store" =>
    (lastOp.evicted # NoKey <=> lastOp.docsAfterSet > CacheLimit)

(* C10: a store evicts exactly when the cache then holds more than 10      *)
(* entries, one entry per (document, version) key.                         *)
C10_EvictsOnEntryCount ==
  lastOp.kind = "store" =>
    (lastOp.evicted # NoKey <=> lastOp.sizeAfterSet > CacheLimit)

(* the eleventh entry of two documents caused an eviction *)
C10_Witness ==
  /\ lastOp.kind = "store"
  /\ lastOp.evicted # NoKey
  /\ lastOp.sizeAfterSet = CacheLimit + 1
  /\ lastOp.docsAfterSet = 2

(* C11: at every point between two steps of the detector, whatever         *)
(* detectFeatures and clearCache calls came before, the cache holds at     *)
(* most 10 entries, one per (document, version) key.                       *)
C11_CapacityBound ==
  /\ Len(cache) <= CacheLimit
  /\ \A i, j \in 1..Len(cache) : cache[i].key = cache[j].key => i = j

(* a store made the eleventh entry and left the cache with 10 *)
C11_Witness ==
  /\ lastOp.kind = "store"
  /\ lastOp.sizeAfterSet = CacheLimit + 1
  /\ Len(cache) = CacheLimit

(* the document identity of a cache key *)
DocOfKey(k) == SubSeq(k, 1, Len(k) - 2)

(* C12: every step leaves each cache entry and its stored list as they     *)
(* are, except a store that evicts the entry for capacity and a cache      *)
(* clear; so storing (doc, v2) adds an entry and keeps that of (doc, v1).  *)
C12_OldVersionKept ==
  [][\A i \in 1..Len(cache) :
       \/ /\ MapHas(cache', cache[i].key)
          /\ MapGet(cache', cache[i].key) = cache[i].value
       \/ lastOp'.kind \in {"clear", "dispose"}
       \/ /\ lastOp'.kind = "store"
          /\ lastOp'.evicted = cache[i].key
          /\ lastOp'.sizeAfterSet > CacheLimit]_vars

(* a new version of a document was stored at the end of the cache while an *)
(* older version of the same document is still cached                      *)
C12_Witness ==
  /\ lastOp.kind = "store"
  /\ lastOp.evicted = NoKey
  /\ cache[Len(cache)].key = lastOp.key
  /\ \E i \in 1..Len(cache) :
       /\ cache[i].key # lastOp.key
       /\ DocOfKey(cache[i].key) = DocOfKey(lastOp.key)

(* --- one pass: the rules that apply and the detections of a feature --- *)
PassPatterns == PatternsIn(pass.registry, pass.languageId)

DetectionsOf(features, featureId) ==
  SelectSeq(features, LAMBDA f : f.featureId = featureId)

(* the construction expressions `new X(...)` of a text *)
NewNodes(text, X) ==
  {i \in 1..Len(text) : /\ NodeOf(text[i]).kind = "NewExpression"
                        /\ NodeOf(text[i]).ident = X}

(* rule p is a constructor rule with a receiver name, its feature is known *)
(* and the text of the pass has exactly one construction of that receiver  *)
OneConstruction(p) ==
  /\ p.astPattern.nodeType = "NewExpression"
  /\ p.astPattern.objectName # None
  /\ getFeature(pass.api, p.featureId).found
  /\ Cardinality(NewNodes(pass.text, p.astPattern.objectName)) = 1

OneSyntaxDetection(p) ==
  LET ds == DetectionsOf(pass.result, p.featureId)
  IN /\ Len(ds) = 1
     /\ ds[1].detectionMethod = "ast"
     /\ ds[1].confidence = p.confidence

Occurrences(p, text) ==
  {i \in 0..Len(text) : MatchLenAt(p.pattern, text, i) >= 0}

OneTextDetection(p) ==
  LET ds == DetectionsOf(pass.result, p.featureId)
  IN /\ Len(ds) = 1
     /\ ds[1].detectionMethod = "regex"
     /\ ds[1].confidence = p.confidence

(* C14: for a language that is not program-like the syntax matcher is not  *)
(* run, and a known rule without contextRequired whose text pattern occurs *)
(* exactly once in the document yields exactly one detection, found by the *)
(* text matcher, with the rule's base confidence.                          *)
C14_OneTextOccurrence ==
  (pass.pc \in {"text", "merge", "done", "end"}
     /\ pass.languageId \notin TypeScriptLike) =>
    /\ ~pass.parsed
    /\ pass.ast = << >>
    /\ pass.pc \in {"done", "end"} =>
         \A k \in 1..Len(PassPatterns) :
           (/\ ~PassPatterns[k].contextRequired
            /\ getFeature(pass.api, PassPatterns[k].featureId).found
            /\ Cardinality(Occurrences(PassPatterns[k], pass.text)) = 1)
             => OneTextDetection(PassPatterns[k])

(* `backdrop-filter:` once in a stylesheet of several tokens, detected     *)
(* once by the text matcher with confidence 0.95                           *)
C14_Witness ==
  /\ pass.pc = "done"
  /\ pass.languageId = "css"
  /\ Len(pass.text) > 1
  /\ ~pass.parsed
  /\ \E k \in 1..Len(PassPatterns) :
       /\ PassPatterns[k].featureId = "backdrop-filter"
       /\ Cardinality(Occurrences(PassPatterns[k], pass.text)) = 1
       /\ OneTextDetection(PassPatterns[k])
       /\ PassPatterns[k].confidence = 95

(* the severity the specification gives to a baseline status *)
SeverityHint(status) ==
  IF status = "limited" THEN "Warning"
  ELSE IF status = "widely" THEN "Hint"
  ELSE "Information"

PassLists == << pass.ast, pass.regex, pass.result, pass.legacy >>

(* C15: every detection of the syntax matcher, of the text matcher, of    *)
(* the merged result and of the legacy detector carries the severity that  *)
(* the baseline status of its feature determines: limited gives Warning,   *)
(* newly Information, widely Hint, anything else Information; none is      *)
(* Error.                                                                  *)
C15_SeverityFromStatus ==
  \A l \in 1..Len(PassLists) : \A i \in 1..Len(PassLists[l]) :
    LET f == PassLists[l][i]
    IN /\ f.severity = SeverityHint(getFeature(pass.api, f.featureId).baseline)
       /\ f.severity # "Error"

(* one pass in which the syntax matcher and the legacy detector each      *)
(* produced a detection of a limited feature, the text matcher one of a    *)
(* widely available feature, and the merged result holds both              *)
C15_Witness ==
  /\ pass.pc = "end"
  /\ \A l \in {1, 3, 4} : \E i \in 1..Len(PassLists[l]) :
       /\ getFeature(pass.api, PassLists[l][i].featureId).baseline = "limited"
       /\ PassLists[l][i].severity = "Warning"
  /\ \A l \in {2, 3} : \E i \in 1..Len(PassLists[l]) :
       /\ getFeature(pass.api, PassLists[l][i].featureId).baseline = "widely"
       /\ PassLists[l][i].severity = "Hint"

AllKeys == {CacheKey(d, v) : d \in Docs, v \in 1..(MaxVersion + 1)}

Cleared(op) == op.kind \in {"clear", "dispose"}

(* the step is the start of detectFeatures call c *)
StartsCall(c) == calls[c].pc = "idle" /\ lastOp'.call = c

(* C16: clearCache, called directly or by the dispose of the diagnostic    *)
(* provider, leaves the cache without an entry, so that no key, cached     *)
(* before or not, can hit; the detectFeatures call that follows it is a    *)
(* miss that runs the matchers again and goes on to the merge.             *)
C16_ClearThenMiss ==
  [][/\ Cleared(lastOp') =>
          /\ cache' = << >>
          /\ \A k \in AllKeys : ~CacheLookup(cache', k).hit
     /\ \A c \in Calls :
          (Cleared(lastOp) /\ StartsCall(c)) =>
             /\ lastOp'.kind \in {"ast", "regex"}
             /\ lastOp'.parsed \/ lastOp'.scanned
             /\ calls'[c].pc \in {"awaitAST", "awaitRegex"}
             /\ calls'[c].key = lastOp'.key]_vars

(* a call for a key of the prefilled cache, started while the cache is     *)
(* empty after a clear, is in flight as a miss                             *)
C16_Witness ==
  /\ cache = << >>
  /\ lastOp.kind \in {"ast", "regex"}
  /\ lastOp.call \in Calls
  /\ calls[lastOp.call].pc \in {"awaitAST", "awaitRegex"}
  /\ \E i \in 1..Len(Analysed) : AnalysedEntry(i).key = lastOp.key
  /\ \A c \in Calls \ {lastOp.call} : ~InFlight(c)

(* C17: closing a document evicts it: after the close handler has run, the *)
(* cache holds no entry of the closed document, whatever its version.      *)
C17_CloseEvictsDocument ==
  lastOp.kind = "close" =>
    \A i \in 1..Len(cache) : DocOfKey(cache[i].key) # Uri(lastOp.doc)

(* a rule whose text pattern needs at least one character and whose        *)
(* structural descriptor, if any, names what its node type needs           *)
WellFormedRule(p) ==
  /\ MatchLenAt(p.pattern, << >>, 0) < 0
  /\ p.astPattern.nodeType = "NewExpression" => p.astPattern.objectName # None
  /\ p.astPattern.nodeType = "CallExpression" => p.astPattern.methodName # None

(* C18: a registry with a malformed rule stops the start of the extension, *)
(* so every pass over a document runs with well-formed rules only.         *)
C18_MalformedNeverAnalysed ==
  pass.pc \in {"text", "merge", "done", "end"} =>
    \A k \in 1..Len(pass.registry) : WellFormedRule(pass.registry[k])

(* call c completes in this step while another call is suspended *)
FinishesBeside(c) ==
  /\ calls[c].pc = "awaitRegex"
  /\ calls'[c].pc = "idle"
  /\ \E o \in Calls \ {c} : InFlight(o)

(* C19: the store of a result and the eviction that follows it are one     *)
(* step between two suspension points: when a call completes while others  *)
(* are suspended, the cache they see next holds the stored list under the  *)
(* call's key, has already lost its first key if the store made an         *)
(* eleventh entry, and no other call moved in between; a suspended call    *)
(* never sees more than 10 entries.                                        *)
C19_StoreAtomic ==
  [][/\ (\E o \in Calls : calls'[o].pc # "idle") => Len(cache') <= CacheLimit
     /\ \A c \in Calls :
          FinishesBeside(c) =>
            LET key == calls[c].key
                grown == IF MapHas(cache, key) THEN Len(cache)
                         ELSE Len(cache) + 1
            IN /\ MapHas(cache', key)
               /\ MapGet(cache', key) = lastOp'.result
               /\ Len(cache') = Min({grown, CacheLimit})
               /\ grown > CacheLimit => ~MapHas(cache', cache[1].key)
               /\ \A o \in Calls \ {c} : calls'[o] = calls[o]]_vars

(* a call stored the eleventh entry and evicted the first key while        *)
(* another call was suspended                                              *)
C19_Witness ==
  /\ lastOp.kind = "store"
  /\ lastOp.sizeAfterSet = CacheLimit + 1
  /\ lastOp.removed = 1
  /\ Len(cache) = CacheLimit
  /\ \E o \in Calls \ {lastOp.call} : InFlight(o)

(* list is what the merger makes of raw: one entry per merge key, the      *)
(* first of highest confidence, for the keys that reach the floor          *)
MergedFrom(list, raw) ==
  /\ \A i, j \in 1..Len(list) :
       MergeKey(list[i]) = MergeKey(list[j]) => i = j
  /\ \A i \in 1..Len(list) :
       /\ list[i].confidence >= MinConfidence
       /\ list[i] = FirstBest(raw, MergeKey(list[i]))
  /\ \A k \in RawKeys(raw) :
       MaxConfidence(raw, k) >= MinConfidence =>
         \E i \in 1..Len(list) : MergeKey(list[i]) = k

(* what one step may do to call c: nothing, start it on a miss, take it    *)
(* from the syntax matcher to the text matcher, or merge and store         *)
CallStep(c) ==
  \/ calls'[c] = calls[c]
  \/ /\ calls[c].pc = "idle"
     /\ calls'[c].pc = IF LanguageId(calls'[c].doc) \in TypeScriptLike
                       THEN "awaitAST" ELSE "awaitRegex"
     /\ calls'[c].key = CacheKey(calls'[c].doc, docVersion[calls'[c].doc])
     /\ ~MapHas(cache, calls'[c].key)
  \/ /\ calls[c].pc = "awaitAST"
     /\ calls'[c].pc = "awaitRegex"
     /\ calls'[c].key = calls[c].key
     /\ calls'[c].doc = calls[c].doc
  \/ /\ calls[c].pc = "awaitRegex"
     /\ calls'[c].pc = "idle"
     /\ lastOp'.kind = "store"
     /\ lastOp'.key = calls[c].key
     /\ MapHas(cache', calls[c].key)
     /\ MergedFrom(MapGet(cache', calls[c].key), calls[c].detected)

(* C20: a call that misses goes from the syntax matcher (program-like      *)
(* language) to the text matcher, then merges and stores under its key, in *)
(* that order; no edit, later call, clearCache or close takes it out of    *)
(* that course; every started call does store; and the list it stores is   *)
(* the merger's output for its raw detections.                             *)
C20_RunToCompletion ==
  /\ [][\A c \in Calls : CallStep(c)]_vars
  /\ \A c \in Calls :
       (calls[c].pc # "idle") ~> (lastOp.kind = "store" /\ lastOp.call = c)

(* a call stored a merged list shorter than its raw detections, for a      *)
(* version that an edit had already replaced                               *)
C20_Witness ==
  /\ lastOp.kind = "store"
  /\ Len(lastOp.result) < Len(lastOp.raw)
  /\ lastOp.result # << >>
  /\ MapHas(cache, lastOp.key)
  /\ MapGet(cache, lastOp.key) = lastOp.result
  /\ lastOp.key # CacheKey(lastOp.doc, docVersion[lastOp.doc])

(* the tokens of the source line that holds offset i *)
MatchLine(text, i) ==
  LET lo == CHOOSE j \in 0..i :
              /\ j = 0 \/ text[j] = "NL"
              /\ \A k \in (j + 1)..i : text[k] # "NL"
      hi == CHOOSE j \in (i + 1)..(Len(text) + 1) :
              /\ j = Len(text) + 1 \/ text[j] = "NL"
              /\ \A k \in (i + 1)..(j - 1) : text[k] # "NL"
  IN SubSeq(text, lo + 1, hi - 1)

(* the context heuristic table of the specification *)
HeuristicValue(rule, line) ==
  LET holds(t) == \E k \in 1..Len(line) : line[k] = t
      starts(t) == Len(line) > 0 /\ line[1] = t
  IN IF rule.featureId = "js-optional-chaining"
     THEN (IF holds("?.") /\ ~holds("?") THEN 90 ELSE 30)
     ELSE IF rule.featureId = "js-private-fields"
     THEN (IF holds("class ") \/ starts("#x") THEN 90 ELSE 40)
     ELSE IF rule.featureId = "js-top-level-await"
     THEN (IF starts("await") /\ ~holds("async") THEN 80 ELSE 30)
     ELSE rule.confidence

(* C21: in the text matcher a match of a contextRequired rule is emitted   *)
(* exactly when the heuristic value of its line is >= 0.5, with that value *)
(* as confidence (the base confidence when the table has no row for the    *)
(* feature); a match of any other rule is always emitted, with the base    *)
(* confidence.                                                             *)
C21_ContextFilter ==
  [][LET m == Exec(scan.rule.pattern, scan.text, scan.lastIndex)
         v == IF scan.rule.contextRequired
              THEN HeuristicValue(scan.rule, MatchLine(scan.text, m.index))
              ELSE scan.rule.confidence
     IN (/\ scan.pc = "loop"
         /\ scan.detector = "enhanced"
         /\ m.found
         /\ m.len > 0
         /\ scan.rule.featureId \in DOMAIN scan.api) =>
          IF scan.rule.contextRequired /\ v < MinContextConfidence
          THEN scan'.out = scan.out
          ELSE /\ Len(scan'.out) = Len(scan.out) + 1
               /\ SubSeq(scan'.out, 1, Len(scan.out)) = scan.out
               /\ scan'.out[Len(scan'.out)].confidence = v
               /\ scan'.out[Len(scan'.out)].detectionMethod = "regex"]_vars

(* a scan of three lines with a private-field rule that needs its context: *)
(* the match after `y` was discarded (0.4), the match at the start of the  *)
(* second line was emitted with 0.9                                        *)
C21_Witness ==
  /\ scan.pc = "done"
  /\ scan.rule.featureId = "js-private-fields"
  /\ scan.rule.contextRequired
  /\ scan.matchCount = 2
  /\ Len(scan.out) = 1
  /\ scan.out[1].confidence = 90
  /\ scan.out[1].startLine = 1

(* the shape a structural descriptor asks of a node *)
HasShape(node, d) ==
  IF d.nodeType = "NewExpression"
  THEN node.kind = "NewExpression" /\ node.ident # None /\ node.ident = d.objectName
  ELSE IF d.nodeType = "CallExpression"
  THEN /\ node.kind = "CallExpression"
       /\ node.member # None
       /\ node.member = d.methodName
       /\ d.objectName = None \/ (node.ident # None /\ node.ident = d.objectName)
  ELSE node.kind = "OptionalAccess"

(* C22: findASTNodes reports exactly the nodes that have the shape of the  *)
(* rule's descriptor (construction of the named identifier; call through a *)
(* member of the given name, on the named receiver if one is given;        *)
(* member access with the optional marker), wherever they are in the tree, *)
(* each one once.                                                          *)
C22_StructuralMatch ==
  scan.pc = "found" =>
    /\ \A i \in 0..(Len(scan.text) - 1) :
         HasShape(NodeOf(scan.text[i + 1]), scan.rule.astPattern)
           <=> \E n \in 1..Len(scan.out) : scan.out[n] = i
    /\ \A n, k \in 1..Len(scan.out) : scan.out[n] = scan.out[k] => n = k
    /\ \A n \in 1..Len(scan.out) : scan.out[n] \in 0..(Len(scan.text) - 1)

(* a method rule with a receiver name reported the two calls on that       *)
(* receiver and none of the calls of the same member on other receivers    *)
C22_Witness ==
  /\ scan.pc = "found"
  /\ scan.rule.astPattern.nodeType = "CallExpression"
  /\ scan.rule.astPattern.objectName = "navigator"
  /\ scan.rule.astPattern.methodName = "share"
  /\ Len(scan.text) = 4
  /\ scan.out = << 2, 3 >>

(* detection f starts before detection g, or where g starts *)
NotAfter(f, g) ==
  \/ f.startLine < g.startLine
  \/ f.startLine = g.startLine /\ f.startChar <= g.startChar

(* the place in the registry of the rule that detects featureId by syntax *)
RuleIndex(featureId) ==
  Min({k \in 1..Len(PassPatterns) :
         /\ hasAstPattern(PassPatterns[k])
         /\ PassPatterns[k].featureId = featureId
         /\ findASTNodes(pass.text, PassPatterns[k], 0) # << >>})

(* C23 as stated: the raw detections of the syntax matcher are in node     *)
(* traversal order, whatever the order of the rules in the registry.       *)
C23_TraversalOrder ==
  pass.parsed =>
    \A i, j \in 1..Len(pass.ast) : i < j => NotAfter(pass.ast[i], pass.ast[j])

(* C23: the syntax matcher traverses the tree once for each rule: its raw  *)
(* detections are grouped by rule in registry order, and the detections of *)
(* one rule are in node traversal order.                                   *)
C23_RuleThenTraversalOrder ==
  pass.parsed =>
    \A i, j \in 1..Len(pass.ast) : i < j =>
      /\ RuleIndex(pass.ast[i].featureId) <= RuleIndex(pass.ast[j].featureId)
      /\ pass.ast[i].featureId = pass.ast[j].featureId =>
           /\ NotAfter(pass.ast[i], pass.ast[j])
           /\ pass.ast[i] # pass.ast[j]

(* share, construction, share in the tree: the construction's detection    *)
(* comes first, the two share detections follow in traversal order         *)
C23_Witness ==
  /\ pass.parsed
  /\ Len(pass.ast) = 3
  /\ pass.ast[1].featureId = "urlpattern" /\ pass.ast[1].startChar = 1
  /\ pass.ast[2].featureId = "web-share" /\ pass.ast[2].startChar = 0
  /\ pass.ast[3].featureId = "web-share" /\ pass.ast[3].startChar = 2

(* the offsets of the text at which the rule's token stands, in order *)
OccurrenceSeq(rule, text) ==
  LET occ == {i \in 0..(Len(text) - 1) : text[i + 1] = rule.pattern.tok}
      F[n \in 0..Cardinality(occ)] ==
        IF n = 0 THEN << >>
        ELSE Append(F[n - 1],
               Min({i \in occ : \A k \in 1..(n - 1) : F[n - 1][k] # i}))
  IN F[Cardinality(occ)]

(* C24: a scan considers every occurrence of the rule's pattern from the   *)
(* start of the text, wherever an earlier scan, ended or cut short, left   *)
(* the rule's cursor; when no match is discarded for its context, the      *)
(* detections are those of the occurrences, in order, for both detectors.  *)
C24_NoCursorLeak ==
  scan.pc = "done" =>
    LET occ == OccurrenceSeq(scan.rule, scan.text)
    IN /\ scan.matchCount = Len(occ)
       /\ (scan.detector = "legacy" \/ ~scan.rule.contextRequired) =>
            /\ Len(scan.out) = Len(occ)
            /\ \A n \in 1..Len(occ) :
                 /\ scan.out[n].startLine = positionAt(scan.text, occ[n]).line
                 /\ scan.out[n].startChar =
                      positionAt(scan.text, occ[n]).character

(* a scan that found the cursor past the first occurrence and still        *)
(* detected all three occurrences                                          *)
C24_Witness ==
  /\ scan.pc = "done"
  /\ scan.matchCount = 3
  /\ Len(scan.out) = 3
  /\ scan.out[1].startLine = 0 /\ scan.out[1].startChar = 1
  /\ scan.out[3].startLine = 1 /\ scan.out[3].startChar = 1

(* the range of detection f is not empty and ends inside the text *)
RangeInText(f, text) ==
  LET last == positionAt(text, Len(text))
  IN /\ \/ f.startLine < f.endLine
        \/ f.startLine = f.endLine /\ f.startChar < f.endChar
     /\ \/ f.endLine < last.line
        \/ f.endLine = last.line /\ f.endChar <= last.character

(* C25: every detection of the text matcher has a range that is not empty  *)
(* and lies inside the document, also the detection of a match of length 0 *)
C25_RangeNonEmpty ==
  scan.detector = "enhanced" =>
    \A n \in 1..Len(scan.out) : RangeInText(scan.out[n], scan.text)

(* C26: when a call that missed has stored and returned, the cache holds   *)
(* its key with the list it returned, whether or not the store evicted an  *)
(* entry and whether or not the key had been stored in the meantime.       *)
C26_StoredEntrySurvives ==
  lastOp.kind = "store" =>
    /\ MapHas(cache, lastOp.key)
    /\ MapGet(cache, lastOp.key) = lastOp.result
    /\ lastOp.evicted # lastOp.key

(* the store made an eleventh entry, evicted another key, and its own key  *)
(* is the newest entry                                                     *)
C26_Witness ==
  /\ lastOp.kind = "store"
  /\ lastOp.removed = 1
  /\ lastOp.evicted # NoKey
  /\ cache[Len(cache)].key = lastOp.key
  /\ cache[Len(cache)].value = lastOp.result
  /\ lastOp.result # << >>

(* the versions a document can have had *)
Versions == 0..(MaxVersion + 1)

(* C27: every cache entry keyed (doc, v) holds the merged detections of    *)
(* the text the document had at version v: the key, the text the syntax    *)
(* matcher parsed and the text the text matcher scanned belong to one      *)
(* version, whatever arrives at the call's suspension points.              *)
C27_VersionConsistent ==
  \A i \in 1..Len(cache) :
    \E d \in Docs, v \in Versions :
      /\ cache[i].key = CacheKey(d, v)
      /\ cache[i].value = Pipeline(TextAt(d, v), LanguageId(d), apiCache)

(* C28: the analysis that the Refresh command makes of the active document *)
(* publishes the detections of the document's text against the refreshed   *)
(* feature data, also when the document has the version of its previous    *)
(* analysis.                                                               *)
C28_RefreshTakesEffect ==
  [][\A c \in FreeCalls :
       RefreshAnalyse(c) =>
         /\ lastOp'.kind = "hit" =>
              lastOp'.result = Pipeline(docText[lastOp.doc],
                                        LanguageId(lastOp.doc), apiCache)
         /\ lastOp'.kind # "hit" => lastOp'.api = lastOp.api]_vars

(* C29: once the edits stop, every document that was edited has been       *)
(* analysed at its final version, also when the edits of two documents     *)
(* come within the debounce delay of each other; and the timer starts at   *)
(* most one analysis of a document after its last edit.                    *)
C29_DebouncedEditsAnalysed ==
  /\ [](\A d \in Docs : changeTimeout.started[d] <= 1)
  /\ \A d \in Docs :
       <>[](d \in changeTimeout.edited =>
              MapHas(cache, CacheKey(d, docVersion[d])))

(* C30: after any sequence of initialize() calls and key store/delete      *)
(* operations, isAvailable() is true exactly when the initialize() call    *)
(* that returned last found a key and returned true.                       *)
C30_AvailabilityTracksLastInit ==
  gemini.lastInit.done =>
    (isAvailable <=> (gemini.lastInit.found /\ gemini.lastInit.returned))

====
